---- MODULE Spec2Model ----
(***************************************************************************)
(* Trinity Incident-Identity Engine: the append-only incident ledger, the  *)
(* derived entity identity, the snapshot generator and the meaning         *)
(* overlay, modelled from src/core/*.py.                                   *)
(*                                                                         *)
(* Python objects are modelled by identity: an Incident is an index into   *)
(* `heap`, and the list/dict objects an Incident's fields point at are     *)
(* indices into `cells`, so that two references to one list are one cell.  *)
(* Strings that the code only tests for emptiness or equality are TLA+     *)
(* strings; strings the code orders (dates) or searches (facts,            *)
(* definitions) are sequences of one-character strings.                    *)
(***************************************************************************)
EXTENDS Integers, Sequences, FiniteSets, TLC

VARIABLES
    heap,       \* the Incident objects constructed so far, by identity
    cells,      \* the list and dict objects the Incidents' fields refer to
    ledger,     \* IncidentLog.incidents: a list of Incident references
    appended,   \* history: the arguments of the append calls, in call order
    entity,     \* the EntityIdentity object the caller holds (or none)
    held,       \* the list a get_all() call returned, kept by the caller
    snapshots,  \* SnapshotGenerator.snapshots: entity_id -> IdentitySnapshot
    layers,     \* MeaningOverlay.layers: source -> (term -> MeaningEntry)
    watch,      \* whether the caller keeps the results of read-only calls
    last        \* the last call: name, argument, error raised, result

vars == <<heap, cells, ledger, appended, entity, held, snapshots, layers,
          watch, last>>

----------------------------------------------------------------------------
(* Bounds of the model *)

MaxObjects == 2
MaxLog == 2
MaxEntityLen == 3

----------------------------------------------------------------------------
(* Text: str.lower(), the `in` substring test and string ordering *)

Range(s) == {s[k] : k \in 1..Len(s)}

UpperCase == <<"A","B","C","D","E","F","G","H","I","J","K","L","M","N","O","P","Q","R","S","T","U","V","W","X","Y","Z">>
LowerCase == <<"a","b","c","d","e","f","g","h","i","j","k","l","m","n","o","p","q","r","s","t","u","v","w","x","y","z">>
Digits == <<"0","1","2","3","4","5","6","7","8","9">>

IndexIn(c, s) == IF \E k \in 1..Len(s) : s[k] = c
                 THEN CHOOSE k \in 1..Len(s) : s[k] = c
                 ELSE 0

\* The characters the model's texts are written in
Alphabet == Range(UpperCase) \cup Range(LowerCase) \cup Range(Digits)
                \cup {" ", "-", ":", "_", ",", "."}

\* ord(c)
CodePoint ==
    [c \in Alphabet |->
        IF IndexIn(c, Digits) > 0 THEN 47 + IndexIn(c, Digits)
        ELSE IF IndexIn(c, UpperCase) > 0 THEN 64 + IndexIn(c, UpperCase)
        ELSE IF IndexIn(c, LowerCase) > 0 THEN 96 + IndexIn(c, LowerCase)
        ELSE IF c = " " THEN 32
        ELSE IF c = "-" THEN 45
        ELSE IF c = ":" THEN 58
        ELSE IF c = "," THEN 44
        ELSE IF c = "." THEN 46
        ELSE 95]

Ord(c) == CodePoint[c]

\* c.lower()
LowerOf ==
    [c \in Alphabet |->
        IF IndexIn(c, UpperCase) > 0 THEN LowerCase[IndexIn(c, UpperCase)] ELSE c]

LowerChar(c) == LowerOf[c]

\* str.lower()
lower(s) == [k \in 1..Len(s) |-> LowerChar(s[k])]

\* phrase in text
Contains(text, phrase) ==
    \E k \in 1..(Len(text) - Len(phrase) + 1) :
        SubSeq(text, k, k + Len(phrase) - 1) = phrase

\* s < t on Python strings: lexicographic by code point
RECURSIVE StrLess(_, _)
StrLess(s, t) ==
    IF t = <<>> THEN FALSE
    ELSE IF s = <<>> THEN TRUE
    ELSE IF Ord(Head(s)) < Ord(Head(t)) THEN TRUE
    ELSE IF Ord(Head(s)) > Ord(Head(t)) THEN FALSE
    ELSE StrLess(Tail(s), Tail(t))

\* None, where an Incident reference or a string is expected
NoneRef == 0
NoneStr == <<"None">>

----------------------------------------------------------------------------
(* Incident: the dataclass, __post_init__, to_dict, from_dict *)

\* IncidentType: member name -> value
IncidentType ==
    ("OBSERVATION" :> "observation") @@ ("INTERACTION" :> "interaction") @@
    ("STATE_CHANGE" :> "state_change") @@ ("COMMUNICATION" :> "communication") @@
    ("SYSTEM_EVENT" :> "system_event") @@ ("OTHER" :> "other")

IncidentTypeValue(member) == IncidentType[member]

\* IncidentType(value): the member with that value, "" when there is none
\* (the enum call then raises ValueError)
IncidentTypeMember(value) ==
    IF \E m \in DOMAIN IncidentType : IncidentType[m] = value
    THEN CHOOSE m \in DOMAIN IncidentType : IncidentType[m] = value
    ELSE ""

IncidentFields == {"incident_id", "date", "system", "incident_type",
                   "participants", "facts", "context", "summary", "outcome",
                   "metadata"}

forbidden_phrases == <<
      <<"s","h","o","u","l","d">>,
      <<"w","i","l","l">>,
      <<"m","u","s","t">>,
      <<"p","r","e","d","i","c","t">>,
      <<"o","p","t","i","m","i","z","e">>,
      <<"b","e","s","t">>,
      <<"w","o","r","s","t">>,
      <<"g","o","o","d">>,
      <<"b","a","d">>,
      <<"r","i","g","h","t">>,
      <<"w","r","o","n","g">>,
      <<"d","e","s","t","i","n","y">>,
      <<"f","a","t","e">>,
      <<"m","e","a","n","t"," ","t","o">>,
      <<"s","u","p","p","o","s","e","d"," ","t","o">> >>

NoError == [type |-> "", msg |-> "", phrase |-> <<>>]
Raise(type, msg) == [type |-> type, msg |-> msg, phrase |-> <<>>]

\* The first phrase of `phrases` (in list order) that `text` contains, as an
\* index; 0 when it contains none.
FirstPhrase(text, phrases) ==
    IF \E p \in 1..Len(phrases) : Contains(text, phrases[p])
    THEN CHOOSE p \in 1..Len(phrases) :
            /\ Contains(text, phrases[p])
            /\ \A q \in 1..(p - 1) : ~Contains(text, phrases[q])
    ELSE 0

\* The phrase check made on the facts as written: fact instead of fact.lower()
FactsError_as_written(facts) ==
    IF \E f \in 1..Len(facts) : FirstPhrase(facts[f], forbidden_phrases) > 0
    THEN [type   |-> "ValueError",
          msg    |-> "Fact contains prescriptive language",
          phrase |-> forbidden_phrases[FirstPhrase(
                        facts[CHOOSE g \in 1..Len(facts) :
                                FirstPhrase(facts[g], forbidden_phrases) > 0],
                        forbidden_phrases)]]
    ELSE NoError

\* for fact in self.facts: ... raise on the first fact holding a phrase
FactsError(facts) ==
    IF \E f \in 1..Len(facts) : FirstPhrase(lower(facts[f]), forbidden_phrases) > 0
    THEN LET f == CHOOSE g \in 1..Len(facts) :
                    /\ FirstPhrase(lower(facts[g]), forbidden_phrases) > 0
                    /\ \A h \in 1..(g - 1) :
                          FirstPhrase(lower(facts[h]), forbidden_phrases) = 0
         IN [type   |-> "ValueError",
             msg    |-> "Fact contains prescriptive language",
             phrase |-> forbidden_phrases[FirstPhrase(lower(facts[f]), forbidden_phrases)]]
    ELSE NoError

\* Incident.__post_init__ on the constructor's arguments `a` (values)
Incident_post_init(a) ==
    IF a.incident_id = "" THEN Raise("ValueError", "incident_id cannot be empty")
    ELSE IF a.date = <<>> THEN Raise("ValueError", "date cannot be empty")
    ELSE IF a.system = "" THEN Raise("ValueError", "system cannot be empty")
    ELSE IF a.participants = <<>> THEN Raise("ValueError", "participants cannot be empty")
    ELSE IF a.facts = <<>> THEN Raise("ValueError", "facts cannot be empty")
    ELSE FactsError(a.facts)

\* The fields of Incident object i, its list and dict fields dereferenced
FieldsOf(h, c, i) ==
    [incident_id   |-> h[i].incident_id,
     date          |-> h[i].date,
     system        |-> h[i].system,
     incident_type |-> h[i].incident_type,
     participants  |-> c[h[i].participants],
     facts         |-> c[h[i].facts],
     context       |-> c[h[i].context],
     summary       |-> h[i].summary,
     outcome       |-> h[i].outcome,
     metadata      |-> c[h[i].metadata]]

Fields(i) == FieldsOf(heap, cells, i)

\* to_dict() writing self.incident_type.name instead of .value
Incident_to_dict_name(i) ==
    [incident_id   |-> heap[i].incident_id,
     date          |-> heap[i].date,
     system        |-> heap[i].system,
     incident_type |-> heap[i].incident_type,
     participants  |-> heap[i].participants,
     facts         |-> heap[i].facts,
     context       |-> heap[i].context,
     summary       |-> heap[i].summary,
     outcome       |-> heap[i].outcome,
     metadata      |-> heap[i].metadata]

\* Incident.to_dict(): the list and dict values are the incident's own objects
Incident_to_dict(i) ==
    [incident_id   |-> heap[i].incident_id,
     date          |-> heap[i].date,
     system        |-> heap[i].system,
     incident_type |-> IncidentTypeValue(heap[i].incident_type),
     participants  |-> heap[i].participants,
     facts         |-> heap[i].facts,
     context       |-> heap[i].context,
     summary       |-> heap[i].summary,
     outcome       |-> heap[i].outcome,
     metadata      |-> heap[i].metadata]

\* A to_dict() result with its list and dict values dereferenced
DictValue(d) ==
    [k \in DOMAIN d |->
        IF k \in {"participants", "facts", "context", "metadata"}
        THEN cells[d[k]] ELSE d[k]]


----------------------------------------------------------------------------
(* Sample data *)

Date0101 == <<"2","0","2","4","-","0","1","-","0","1">>
Date0201 == <<"2","0","2","4","-","0","2","-","0","1">>
Date0301 == <<"2","0","2","4","-","0","3","-","0","1">>
FactMet == <<"M","e","t"," ","a","t"," ","3","p","m">>
FactLeft == <<"H","e"," ","l","e","f","t">>
FactWill == <<"T","h","i","s"," ","w","i","l","l"," ","h","a","p","p","e","n">>
FactShould == <<"I","t"," ","S","H","O","U","L","D"," ","r","u","n">>
FactGoodwill == <<"A"," ","g","o","o","d","w","i","l","l"," ","v","i","s","i","t">>
FactPredicted == <<"P","r","e","d","i","c","t","e","d"," ","r","a","i","n">>

EmptyDict == <<>>
RoomDict == [room |-> "r1"]

Args(id, date, system, type, participants, facts) ==
    [incident_id |-> id, date |-> date, system |-> system,
     incident_type |-> type, participants |-> participants, facts |-> facts,
     context |-> EmptyDict, summary |-> "", outcome |-> "",
     metadata |-> EmptyDict]

\* Constructor arguments the whole-system specification draws from
SystemInputs ==
    { Args("i1", Date0201, "A", "OBSERVATION", <<"a">>, <<FactMet>>),
      Args("i1", Date0101, "B", "INTERACTION", <<"a", "b", "b">>, <<FactLeft>>),
      Args("i3", Date0101, "A", "OTHER", <<"a">>, <<FactMet, FactWill>>) }

NoInput == Args("", <<>>, "", "OTHER", <<>>, <<>>)

----------------------------------------------------------------------------
(* State after construction of an empty IncidentLog, a SnapshotGenerator   *)
(* over it and a MeaningOverlay                                            *)

NoEntity == [live |-> FALSE, entity_id |-> "", incidents |-> <<>>]
NoList == [ref |-> "none", items |-> <<>>]
Call(op, arg, err, val) == [op |-> op, arg |-> arg, err |-> err, val |-> val]

\* What a call that only reads may leave in `last`, given the results it may
\* return: one of them when the caller keeps results (watch), `last` as it
\* was otherwise
Returns(results) == IF watch THEN results ELSE {last}

----------------------------------------------------------------------------
(* Incident(...) *)

\* The Incident object built from arguments `a`, its four container
\* arguments stored as the four cells after position n
NewIncident(a, n) ==
    [incident_id   |-> a.incident_id,
     date          |-> a.date,
     system        |-> a.system,
     incident_type |-> a.incident_type,
     participants  |-> n + 1,
     facts         |-> n + 2,
     context       |-> n + 3,
     summary       |-> a.summary,
     outcome       |-> a.outcome,
     metadata      |-> n + 4]

\* Incident(**a): raises err, or makes a new object and leaves all else alone
Construct(a, err) ==
    IF err.type # ""
    THEN /\ last' = Call("Incident", a, err, NoneRef)
         /\ UNCHANGED <<heap, cells, ledger, appended, entity, held,
                        snapshots, layers, watch>>
    ELSE /\ Len(heap) < MaxObjects
         /\ heap' = Append(heap, NewIncident(a, Len(cells)))
         /\ cells' = cells \o <<a.participants, a.facts, a.context, a.metadata>>
         /\ last' = Call("Incident", a, NoError, Len(heap) + 1)
         /\ UNCHANGED <<ledger, appended, entity, held, snapshots, layers, watch>>

SystemInputError == [a \in SystemInputs |-> Incident_post_init(a)]

ConstructIncident == \E a \in SystemInputs : Construct(a, SystemInputError[a])

----------------------------------------------------------------------------
(* IncidentLog *)

\* self.incidents.insert(0, incident)
IncidentLog_append_front(l, i) == <<i>> \o l

\* self.incidents.append(incident)
IncidentLog_append(l, i) == Append(l, i)

AppendIncident ==
    \E i \in 1..Len(heap) :
        /\ Len(ledger) < MaxLog
        /\ ledger' = IncidentLog_append(ledger, i)
        /\ appended' = Append(appended, i)
        /\ last' = Call("append", i, NoError, 0)
        /\ UNCHANGED <<heap, cells, entity, held, snapshots, layers, watch>>

\* return self.incidents
IncidentLog_get_all_alias(l) == [ref |-> "ledger", items |-> <<>>]

\* list(self.incidents): a new list object with the ledger's elements
IncidentLog_get_all(l) == [ref |-> "copy", items |-> l]

\* The elements of the list a reference r denotes, the ledger's list being l
ListOf(r, l) == IF r.ref = "ledger" THEN l ELSE r.items

IncidentLog_get_by_entity(l, entity_id) ==
    LET keep(i) == entity_id \in Range(cells[heap[i].participants])
    IN SelectSeq(l, keep)

IncidentLog_get_by_system(l, system) ==
    LET keep(i) == heap[i].system = system
    IN SelectSeq(l, keep)

\* start_date <= i.date <= end_date
StrLeq(s, t) == ~StrLess(t, s)

\* start_date <= i.date < end_date
IncidentLog_get_by_date_range_open(l, start_date, end_date) ==
    LET keep(i) == StrLeq(start_date, heap[i].date) /\ StrLess(heap[i].date, end_date)
    IN SelectSeq(l, keep)

IncidentLog_get_by_date_range(l, start_date, end_date) ==
    LET keep(i) == StrLeq(start_date, heap[i].date) /\ StrLeq(heap[i].date, end_date)
    IN SelectSeq(l, keep)

\* len(self.incidents)
IncidentLog_get_count(l) == Len(l)

QueryFrame == UNCHANGED <<heap, cells, ledger, appended, entity, held,
                          snapshots, layers, watch>>

\* The caller's reference to a list a get_all() call returned: to a list of
\* its own ("copy") or to the ledger's list itself ("ledger")
HeldItems == ListOf(held, ledger)

GetAll ==
    /\ held' = IF watch THEN IncidentLog_get_all(ledger) ELSE held
    /\ last' \in Returns({Call("get_all", 0, NoError, 0)})
    /\ UNCHANGED <<heap, cells, ledger, appended, entity, snapshots, layers,
                   watch>>

\* The caller changes the list it was returned: list.append(i), del list[0],
\* list[0] = i.  The list object changes, whichever object that is.
CallerEdits ==
    {[op |-> "list_append", arg |-> i, items |-> Append(HeldItems, i)] :
        i \in 1..Len(heap)}
    \cup {[op |-> "list_delete", arg |-> 0, items |-> Tail(HeldItems)] :
        i \in {1} \cap DOMAIN HeldItems}
    \cup {[op |-> "list_replace", arg |-> i, items |-> [HeldItems EXCEPT ![1] = i]] :
        i \in {j \in 1..Len(heap) : HeldItems # <<>>}}

CallerOps == {"list_append", "list_delete", "list_replace"}

MutateReturnedList ==
    /\ held.ref # "none"
    /\ \E e \in CallerEdits :
          /\ Len(e.items) <= MaxLog + 1
          /\ IF held.ref = "ledger"
             THEN ledger' = e.items /\ UNCHANGED held
             ELSE held' = [held EXCEPT !.items = e.items] /\ UNCHANGED ledger
          /\ last' = Call(e.op, e.arg, NoError, 0)
    /\ UNCHANGED <<heap, cells, appended, entity, snapshots, layers, watch>>

GetCount ==
    /\ last' \in Returns({Call("get_count", 0, NoError, IncidentLog_get_count(ledger))})
    /\ QueryFrame

QueryEntities == {"a", "b"}
QuerySystems == {"A", "B"}
QueryRanges == {<<Date0101, Date0201>>, <<Date0201, Date0201>>}

GetByEntity ==
    /\ last' \in Returns(
           { Call("get_by_entity", e, NoError, IncidentLog_get_by_entity(ledger, e)) :
             e \in QueryEntities })
    /\ QueryFrame

GetBySystem ==
    /\ last' \in Returns(
           { Call("get_by_system", s, NoError, IncidentLog_get_by_system(ledger, s)) :
             s \in QuerySystems })
    /\ QueryFrame

GetByDateRange ==
    /\ last' \in Returns(
           { Call("get_by_date_range", r, NoError,
                    IncidentLog_get_by_date_range(ledger, r[1], r[2])) :
             r \in QueryRanges })
    /\ QueryFrame

----------------------------------------------------------------------------
(* Incident.to_dict / Incident.from_dict *)

IncidentToDict ==
    /\ last' \in Returns(
           { Call("to_dict", i, NoError, Incident_to_dict(i)) :
             i \in 1..Len(heap) })
    /\ QueryFrame

\* data["k"] raises KeyError when k is missing
MissingKey(d) ==
    IF "incident_id" \notin DOMAIN d THEN "incident_id"
    ELSE IF "date" \notin DOMAIN d THEN "date"
    ELSE IF "system" \notin DOMAIN d THEN "system"
    ELSE ""

MissingListKey(d) ==
    IF "participants" \notin DOMAIN d THEN "participants"
    ELSE IF "facts" \notin DOMAIN d THEN "facts"
    ELSE ""

\* data.get(k, default)
DictGet(d, k, default) == IF k \in DOMAIN d THEN d[k] ELSE default

\* The dict objects from_dict allocates: a fresh {} for each of context and
\* metadata that the dict lacks
FreshDicts(d) ==
    (IF "context" \in DOMAIN d THEN <<>> ELSE <<EmptyDict>>)
    \o (IF "metadata" \in DOMAIN d THEN <<>> ELSE <<EmptyDict>>)

\* l without its repeated elements, first occurrences kept
Dedup(l) ==
    LET first(k) == \A j \in 1..(k - 1) : l[j] # l[k]
        keep == {k \in 1..Len(l) : first(k)}
        pos(n) == CHOOSE k \in keep : Cardinality({j \in keep : j < k}) = n - 1
    IN [n \in 1..Cardinality(keep) |-> l[pos(n)]]

\* from_dict normalising data["participants"] in place
Incident_from_dict_cells_dedup(d, c) ==
    [c EXCEPT ![d.participants] = Dedup(c[d.participants])] \o FreshDicts(d)

\* The list and dict objects after from_dict(d): those of d are passed on to
\* the new incident as they are
Incident_from_dict_cells(d, c) == c \o FreshDicts(d)

\* The Incident object from_dict builds from dict d, n cells existing before
Incident_from_dict(d, n) ==
    [incident_id   |-> d.incident_id,
     date          |-> d.date,
     system        |-> d.system,
     incident_type |-> IncidentTypeMember(DictGet(d, "incident_type", "other")),
     participants  |-> d.participants,
     facts         |-> d.facts,
     context       |-> DictGet(d, "context", n + 1),
     summary       |-> DictGet(d, "summary", ""),
     outcome       |-> DictGet(d, "outcome", ""),
     metadata      |-> DictGet(d, "metadata", n + Len(FreshDicts(d)))]

\* The error Incident.from_dict(d) raises, NoError when it returns
Incident_from_dict_error(d, c) ==
    IF MissingKey(d) # "" THEN Raise("KeyError", MissingKey(d))
    ELSE IF IncidentTypeMember(DictGet(d, "incident_type", "other")) = ""
    THEN Raise("ValueError", "not a valid IncidentType")
    ELSE IF MissingListKey(d) # "" THEN Raise("KeyError", MissingListKey(d))
    ELSE Incident_post_init(
            [incident_id |-> d.incident_id, date |-> d.date,
             system |-> d.system, participants |-> c[d.participants],
             facts |-> c[d.facts]])

\* Incident.from_dict(d), d made from incident i's to_dict()
FromDict(i, d) ==
    LET err == Incident_from_dict_error(d, cells) IN
    IF err.type # ""
    THEN /\ last' = Call("from_dict", [of |-> i, dict |-> d], err, NoneRef)
         /\ UNCHANGED <<heap, cells, ledger, appended, entity, held,
                        snapshots, layers, watch>>
    ELSE /\ Len(heap) < MaxObjects
         /\ heap' = Append(heap, Incident_from_dict(d, Len(cells)))
         /\ cells' = Incident_from_dict_cells(d, cells)
         /\ last' = Call("from_dict", [of |-> i, dict |-> d], NoError, Len(heap) + 1)
         /\ UNCHANGED <<ledger, appended, entity, held, snapshots, layers, watch>>

IncidentFromDict == \E i \in 1..Len(heap) : FromDict(i, Incident_to_dict(i))

----------------------------------------------------------------------------
(* EntityIdentity *)

\* All lists of at most n elements of S
RECURSIVE ListsUpTo(_, _)
ListsUpTo(S, n) ==
    IF n = 0 THEN {<<>>}
    ELSE LET shorter == ListsUpTo(S, n - 1)
         IN shorter \cup {Append(l, x) : l \in shorter, x \in S}

\* All orders of the elements of a set: list(set(...))
Orders(S) == {s \in [1..Cardinality(S) -> S] : Range(s) = S}

EntityIds == {"a", "b", ""}

\* EntityIdentity.__post_init__
EntityIdentity_post_init(id) ==
    IF id = "" THEN Raise("ValueError", "entity_id cannot be empty") ELSE NoError

\* EntityIdentity(entity_id, incidents)
MakeEntity(id, l) ==
    LET err == EntityIdentity_post_init(id) IN
    /\ entity' = IF err.type # "" THEN entity
                 ELSE [live |-> TRUE, entity_id |-> id, incidents |-> l]
    /\ last' = Call("EntityIdentity", id, err, 0)
    /\ UNCHANGED <<heap, cells, ledger, appended, held, snapshots, layers, watch>>

\* The identity view of an entity, built from a scan of the ledger
DeriveEntity ==
    \E id \in EntityIds : MakeEntity(id, IncidentLog_get_by_entity(ledger, id))

\* add_incident without its participant check
EntityIdentity_add_incident_unchecked(e, i) ==
    [err |-> NoError, incidents |-> Append(e.incidents, i)]

\* EntityIdentity.add_incident(incident): the error it raises and the
\* entity's incident list afterwards.  Line 136 reads incident.entity_id,
\* and an Incident has no such attribute.
EntityIdentity_add_incident(e, i) ==
    IF "entity_id" \notin DOMAIN heap[i]
    THEN [err |-> Raise("AttributeError", "'Incident' object has no attribute 'entity_id'"),
          incidents |-> e.incidents]
    ELSE IF heap[i].entity_id \notin Range(cells[heap[i].participants])
    THEN [err |-> Raise("ValueError", "Incident does not involve entity"),
          incidents |-> e.incidents]
    ELSE [err |-> NoError, incidents |-> Append(e.incidents, i)]

AddIncident ==
    \E i \in 1..Len(heap) :
        /\ entity.live
        /\ LET r == EntityIdentity_add_incident(entity, i) IN
           /\ entity' = [entity EXCEPT !.incidents = r.incidents]
           /\ last' = Call("add_incident", i, r.err, 0)
        /\ UNCHANGED <<heap, cells, ledger, appended, held, snapshots, layers, watch>>

\* len(self.incidents)
EntityIdentity_get_incident_count(e) == Len(e.incidents)

\* min(l, key=date) and max(l, key=date): the first of the least (greatest)
RECURSIVE MinFrom(_, _, _)
MinFrom(l, k, best) ==
    IF k > Len(l) THEN best
    ELSE IF StrLess(heap[l[k]].date, heap[best].date)
    THEN MinFrom(l, k + 1, l[k])
    ELSE MinFrom(l, k + 1, best)

RECURSIVE MaxFrom(_, _, _)
MaxFrom(l, k, best) ==
    IF k > Len(l) THEN best
    ELSE IF StrLess(heap[best].date, heap[l[k]].date)
    THEN MaxFrom(l, k + 1, l[k])
    ELSE MaxFrom(l, k + 1, best)

EntityIdentity_get_first_incident(e) ==
    IF e.incidents = <<>> THEN NoneRef ELSE MinFrom(e.incidents, 2, e.incidents[1])

\* get_last_incident reading the end of the list: self.incidents[-1]
EntityIdentity_get_last_incident_tail(e) ==
    IF e.incidents = <<>> THEN NoneRef ELSE e.incidents[Len(e.incidents)]

EntityIdentity_get_last_incident(e) ==
    IF e.incidents = <<>> THEN NoneRef ELSE MaxFrom(e.incidents, 2, e.incidents[1])

\* set(i.system for i in self.incidents)
EntityIdentity_get_systems(e) == {heap[i].system : i \in Range(e.incidents)}

\* set(i.incident_type.value for i in self.incidents)
EntityIdentity_get_incident_types(e) ==
    {IncidentTypeValue(heap[i].incident_type) : i \in Range(e.incidents)}

EntityIdentity_get_co_participants(e) ==
    UNION {Range(cells[heap[i].participants]) : i \in Range(e.incidents)}
        \ {e.entity_id}

DateOrNone(i) == IF i = NoneRef THEN NoneStr ELSE heap[i].date

\* EntityIdentity.to_dict(), for one order of each list(set(...))
EntityIdentity_to_dict(e, systems, types, co) ==
    [entity_id       |-> e.entity_id,
     incident_count  |-> EntityIdentity_get_incident_count(e),
     first_seen      |-> DateOrNone(EntityIdentity_get_first_incident(e)),
     last_seen       |-> DateOrNone(EntityIdentity_get_last_incident(e)),
     systems         |-> systems,
     incident_types  |-> types,
     co_participants |-> co]

EntityIdentity_to_full_dict(e, summary) ==
    [entity_id |-> e.entity_id,
     incidents |-> [k \in 1..Len(e.incidents) |-> Incident_to_dict(e.incidents[k])],
     summary   |-> summary]

GetIncidentCount ==
    /\ entity.live
    /\ last' \in Returns({Call("get_incident_count", 0, NoError,
                    EntityIdentity_get_incident_count(entity))})
    /\ QueryFrame

GetFirstIncident ==
    /\ entity.live
    /\ last' \in Returns({Call("get_first_incident", 0, NoError,
                    EntityIdentity_get_first_incident(entity))})
    /\ QueryFrame

GetLastIncident ==
    /\ entity.live
    /\ last' \in Returns({Call("get_last_incident", 0, NoError,
                    EntityIdentity_get_last_incident(entity))})
    /\ QueryFrame

GetSystems ==
    /\ entity.live
    /\ last' \in Returns(
           { Call("get_systems", 0, NoError, s) :
             s \in Orders(EntityIdentity_get_systems(entity)) })
    /\ QueryFrame

GetIncidentTypes ==
    /\ entity.live
    /\ last' \in Returns(
           { Call("get_incident_types", 0, NoError, s) :
             s \in Orders(EntityIdentity_get_incident_types(entity)) })
    /\ QueryFrame

GetCoParticipants ==
    /\ entity.live
    /\ last' \in Returns(
           { Call("get_co_participants", 0, NoError, s) :
             s \in Orders(EntityIdentity_get_co_participants(entity)) })
    /\ QueryFrame

EntityToDict ==
    /\ entity.live
    /\ last' \in Returns(
           { Call("entity_to_dict", 0, NoError,
                    EntityIdentity_to_dict(entity, s, t, c)) :
             s \in Orders(EntityIdentity_get_systems(entity)),
             t \in Orders(EntityIdentity_get_incident_types(entity)),
             c \in Orders(EntityIdentity_get_co_participants(entity)) })
    /\ QueryFrame

EntityToFullDict ==
    /\ entity.live
    /\ last' \in Returns(
           { Call("entity_to_full_dict", 0, NoError,
                    EntityIdentity_to_full_dict(entity,
                    EntityIdentity_to_dict(entity, s, t, c))) :
             s \in Orders(EntityIdentity_get_systems(entity)),
             t \in Orders(EntityIdentity_get_incident_types(entity)),
             c \in Orders(EntityIdentity_get_co_participants(entity)) })
    /\ QueryFrame

----------------------------------------------------------------------------
(* SnapshotGenerator *)

\* datetime.now().isoformat(): whatever the clock reads
Timestamps == {"t1", "t2"}

\* "This snapshot is a view, not authoritative.
\*  It can be regenerated or deleted."
ViewNote ==
    <<"T","h","i","s"," ","s","n","a","p","s","h","o","t"," ","i","s"," ",
      "a"," ","v","i","e","w",","," ","n","o","t"," ","a","u","t","h","o",
      "r","i","t","a","t","i","v","e","."," ","I","t"," ","c","a","n"," ",
      "b","e"," ","r","e","g","e","n","e","r","a","t","e","d"," ","o","r",
      " ","d","e","l","e","t","e","d",".">>

\* sorted(l, key=date): a new list, stable, ascending; l itself is left alone
\* Insertion that puts x before the elements of equal date
RECURSIVE InsertByDate_before_equal(_, _)
InsertByDate_before_equal(s, x) ==
    IF s = <<>> THEN <<x>>
    ELSE IF ~StrLess(heap[Head(s)].date, heap[x].date) THEN <<x>> \o s
    ELSE <<Head(s)>> \o InsertByDate_before_equal(Tail(s), x)

RECURSIVE InsertByDate(_, _)
InsertByDate(s, x) ==
    IF s = <<>> THEN <<x>>
    ELSE IF StrLess(heap[x].date, heap[Head(s)].date) THEN <<x>> \o s
    ELSE <<Head(s)>> \o InsertByDate(Tail(s), x)

RECURSIVE SortByDate(_)
SortByDate(l) ==
    IF l = <<>> THEN <<>>
    ELSE InsertByDate(SortByDate(SubSeq(l, 1, Len(l) - 1)), l[Len(l)])

\* l.sort(key=date): the list itself is put in order
sort_by_date_in_place(l) == [result |-> SortByDate(l), source |-> SortByDate(l)]

sorted_by_date(l) == [result |-> SortByDate(l), source |-> l]

\* An identity snapshot that also notes its generation time in its metadata
SnapshotGenerator_create_identity_snapshot_stamped(e, now, systems, types, co) ==
    [entity_id       |-> e.entity_id,
     snapshot_date   |-> now,
     incident_count  |-> EntityIdentity_get_incident_count(e),
     first_seen      |-> DateOrNone(EntityIdentity_get_first_incident(e)),
     last_seen       |-> DateOrNone(EntityIdentity_get_last_incident(e)),
     systems         |-> systems,
     incident_types  |-> types,
     co_participants |-> co,
     metadata        |-> [note |-> ViewNote, generated |-> now]]

SnapshotGenerator_create_identity_snapshot(e, now, systems, types, co) ==
    [entity_id       |-> e.entity_id,
     snapshot_date   |-> now,
     incident_count  |-> EntityIdentity_get_incident_count(e),
     first_seen      |-> DateOrNone(EntityIdentity_get_first_incident(e)),
     last_seen       |-> DateOrNone(EntityIdentity_get_last_incident(e)),
     systems         |-> systems,
     incident_types  |-> types,
     co_participants |-> co,
     metadata        |-> [note |-> ViewNote]]

SnapshotGenerator_create_timeline_snapshot(e, now) ==
    LET incidents_sorted == sorted_by_date(e.incidents).result IN
    [entity_id     |-> e.entity_id,
     snapshot_date |-> now,
     incidents_chronological |->
        [k \in 1..Len(incidents_sorted) |-> Incident_to_dict(incidents_sorted[k])]]

\* The inner loop keeping the least date as first_seen and the greatest as
\* last_seen
SystemEntry_chronological(d, entity_id, date) ==
    LET entry == IF entity_id \in DOMAIN d THEN d[entity_id]
                 ELSE [entity_id |-> entity_id, incident_count |-> 0,
                       first_seen |-> date, last_seen |-> date]
    IN (entity_id :>
          [entry EXCEPT !.incident_count = @ + 1,
                        !.first_seen = IF StrLess(date, @) THEN date ELSE @,
                        !.last_seen = IF StrLess(@, date) THEN date ELSE @])
       @@ d

\* One pass of the inner loop of create_system_snapshot
SystemEntry(d, entity_id, date) ==
    LET entry == IF entity_id \in DOMAIN d THEN d[entity_id]
                 ELSE [entity_id |-> entity_id, incident_count |-> 0,
                       first_seen |-> date, last_seen |-> date]
    IN (entity_id :> [entry EXCEPT !.incident_count = @ + 1, !.last_seen = date])
       @@ d

RECURSIVE SystemParticipants(_, _, _)
SystemParticipants(d, ps, date) ==
    IF ps = <<>> THEN d
    ELSE SystemParticipants(SystemEntry(d, Head(ps), date), Tail(ps), date)

RECURSIVE SystemEntities(_, _)
SystemEntities(d, incidents) ==
    IF incidents = <<>> THEN d
    ELSE SystemEntities(
            SystemParticipants(d, cells[heap[Head(incidents)].participants],
                               heap[Head(incidents)].date),
            Tail(incidents))

SnapshotGenerator_create_system_snapshot(l, system, now) ==
    LET incidents == IncidentLog_get_by_system(l, system) IN
    [system         |-> system,
     snapshot_date  |-> now,
     entities       |-> SystemEntities(<<>>, incidents),
     incident_count |-> Len(incidents)]

SnapshotGenerator_create_relationship_snapshot(l, entity1_id, entity2_id, now) ==
    LET keep(i) == /\ entity1_id \in Range(cells[heap[i].participants])
                   /\ entity2_id \in Range(cells[heap[i].participants])
        shared == SelectSeq(ListOf(IncidentLog_get_all(l), l), keep)
    IN [entity1           |-> entity1_id,
        entity2           |-> entity2_id,
        snapshot_date     |-> now,
        shared_incidents  |-> [k \in 1..Len(shared) |-> Incident_to_dict(shared[k])],
        interaction_count |-> Len(shared),
        note              |-> ViewNote]

TemporalSystems(incidents) == {heap[i].system : i \in Range(incidents)}
TemporalEntities(incidents) ==
    UNION {Range(cells[heap[i].participants]) : i \in Range(incidents)}

SnapshotGenerator_create_temporal_snapshot(l, start_date, end_date, now, systems, entities) ==
    LET incidents == IncidentLog_get_by_date_range(l, start_date, end_date) IN
    [start_date       |-> start_date,
     end_date         |-> end_date,
     snapshot_date    |-> now,
     incident_count   |-> Len(incidents),
     systems_involved |-> systems,
     entities_involved |-> entities,
     incidents        |-> [k \in 1..Len(incidents) |-> Incident_to_dict(incidents[k])],
     note             |-> ViewNote]

\* if entity_id in self.snapshots: del self.snapshots[entity_id]
SnapshotGenerator_delete_snapshot(snaps, entity_id) ==
    [k \in DOMAIN snaps \ {entity_id} |-> snaps[k]]

\* self.snapshots.clear()
SnapshotGenerator_regenerate_all_snapshots(snaps) == <<>>

CreateIdentitySnapshot ==
    /\ entity.live
    /\ last' \in Returns(
           { Call("create_identity_snapshot", entity.entity_id, NoError,
                    SnapshotGenerator_create_identity_snapshot(entity, now, s, t, c)) :
             now \in Timestamps,
             s \in Orders(EntityIdentity_get_systems(entity)),
             t \in Orders(EntityIdentity_get_incident_types(entity)),
             c \in Orders(EntityIdentity_get_co_participants(entity)) })
    /\ QueryFrame

CreateTimelineSnapshot ==
    /\ entity.live
    /\ last' \in Returns(
           { Call("create_timeline_snapshot", entity.entity_id, NoError,
                    SnapshotGenerator_create_timeline_snapshot(entity, now)) :
             now \in Timestamps })
    /\ entity' = [entity EXCEPT !.incidents = sorted_by_date(entity.incidents).source]
    /\ UNCHANGED <<heap, cells, ledger, appended, held, snapshots, layers, watch>>

CreateSystemSnapshot ==
    /\ last' \in Returns(
           { Call("create_system_snapshot", system, NoError,
                    SnapshotGenerator_create_system_snapshot(ledger, system, now)) :
             now \in Timestamps, system \in QuerySystems })
    /\ QueryFrame

CreateRelationshipSnapshot ==
    /\ last' \in Returns(
           { Call("create_relationship_snapshot", <<e1, e2>>, NoError,
                    SnapshotGenerator_create_relationship_snapshot(ledger, e1, e2, now)) :
             now \in Timestamps, e1 \in {"a"}, e2 \in QueryEntities })
    /\ QueryFrame

CreateTemporalSnapshot ==
    /\ last' \in Returns(UNION
           { LET incidents == IncidentLog_get_by_date_range(ledger, r[1], r[2]) IN
               { Call("create_temporal_snapshot", r, NoError,
                      SnapshotGenerator_create_temporal_snapshot(
                          ledger, r[1], r[2], now, s, e)) :
                 s \in Orders(TemporalSystems(incidents)),
                 e \in Orders(TemporalEntities(incidents)) } :
             now \in Timestamps, r \in QueryRanges })
    /\ QueryFrame

\* The caller keeps an identity snapshot in the generator's cache:
\* generator.snapshots[entity.entity_id] = generator.create_identity_snapshot(entity)
CacheSnapshot ==
    /\ entity.live
    /\ \E now \in Timestamps,
          s \in Orders(EntityIdentity_get_systems(entity)),
          t \in Orders(EntityIdentity_get_incident_types(entity)),
          c \in Orders(EntityIdentity_get_co_participants(entity)) :
          snapshots' = (entity.entity_id :>
                          SnapshotGenerator_create_identity_snapshot(entity, now, s, t, c))
                       @@ snapshots
    /\ last' = Call("cache_snapshot", entity.entity_id, NoError, 0)
    /\ UNCHANGED <<heap, cells, ledger, appended, entity, held, layers, watch>>

DeleteSnapshot ==
    /\ \E id \in QueryEntities :
          /\ snapshots' = SnapshotGenerator_delete_snapshot(snapshots, id)
          /\ last' = Call("delete_snapshot", id, NoError, 0)
    /\ UNCHANGED <<heap, cells, ledger, appended, entity, held, layers, watch>>

RegenerateAllSnapshots ==
    /\ snapshots' = SnapshotGenerator_regenerate_all_snapshots(snapshots)
    /\ last' = Call("regenerate_all_snapshots", 0, NoError, 0)
    /\ UNCHANGED <<heap, cells, ledger, appended, entity, held, layers, watch>>

----------------------------------------------------------------------------
(* MeaningOverlay *)

\* MeaningSource: member name -> value
MeaningSource ==
    ("ETYMOLOGY" :> "etymology") @@ ("CULTURAL_USAGE" :> "cultural_usage") @@
    ("GEOGRAPHIC_CONTEXT" :> "geographic_context") @@
    ("NARRATIVE_ROLE" :> "narrative_role") @@
    ("TECHNICAL_DEFINITION" :> "technical_definition") @@
    ("HISTORICAL_CONTEXT" :> "historical_context")

meaning_forbidden_phrases == <<
      <<"s","h","o","u","l","d">>,
      <<"m","u","s","t">>,
      <<"w","i","l","l">>,
      <<"p","r","e","d","i","c","t">>,
      <<"o","p","t","i","m","i","z","e">>,
      <<"m","u","s","t"," ","d","o">>,
      <<"w","i","l","l"," ","d","o">>,
      <<"s","h","o","u","l","d"," ","b","e">>,
      <<"o","u","g","h","t"," ","t","o">> >>

\* MeaningEntry.__post_init__
MeaningEntry_post_init(m) ==
    IF m.term = "" THEN Raise("ValueError", "term cannot be empty")
    ELSE IF m.definition = <<>> THEN Raise("ValueError", "definition cannot be empty")
    ELSE LET p == FirstPhrase(lower(m.definition), meaning_forbidden_phrases) IN
         IF p > 0
         THEN [type   |-> "ValueError",
               msg    |-> "Definition contains prescriptive language",
               phrase |-> meaning_forbidden_phrases[p]]
         ELSE NoError

\* An add_entry that keeps the entry a term already has
MeaningLayer_add_entry_keep_first(source, entries, entry) ==
    IF entry.source # source
    THEN [err |-> Raise("ValueError", "Entry source does not match layer source"),
          entries |-> entries]
    ELSE [err |-> NoError, entries |-> entries @@ (entry.term :> entry)]

\* MeaningLayer.add_entry on the layer of `source` holding `entries`
MeaningLayer_add_entry(source, entries, entry) ==
    IF entry.source # source
    THEN [err |-> Raise("ValueError", "Entry source does not match layer source"),
          entries |-> entries]
    ELSE [err |-> NoError, entries |-> (entry.term :> entry) @@ entries]

\* self.layers = {source: MeaningLayer(source) for source in MeaningSource}
MeaningOverlay_init == [source \in DOMAIN MeaningSource |-> <<>>]

\* An add_meaning that stores every entry in the first layer
MeaningOverlay_add_meaning_first_layer(ls, entry) ==
    [err    |-> NoError,
     layers |-> [ls EXCEPT !["ETYMOLOGY"] = (entry.term :> entry) @@ ls["ETYMOLOGY"]]]

\* self.layers[entry.source].add_entry(entry)
MeaningOverlay_add_meaning(ls, entry) ==
    LET r == MeaningLayer_add_entry(entry.source, ls[entry.source], entry)
    IN [err |-> r.err, layers |-> [ls EXCEPT ![entry.source] = r.entries]]

MeaningOverlay_get_meanings_for_term(ls, term) ==
    LET found == {s \in DOMAIN ls : term \in DOMAIN ls[s]}
    IN [v \in {MeaningSource[s] : s \in found} |->
           ls[CHOOSE s \in found : MeaningSource[s] = v][term]]

MeaningOverlay_annotate_incident(incident_id, term, meaning) ==
    [incident_id    |-> incident_id,
     annotated_term |-> term,
     meaning_source |-> MeaningSource[meaning.source],
     definition     |-> meaning.definition,
     usage_examples |-> meaning.usage_examples,
     note |-> "This annotation is descriptive only and does not modify the incident record."]

MeaningOverlay_annotate_entity(entity_id, term, meaning) ==
    [entity_id      |-> entity_id,
     annotated_term |-> term,
     meaning_source |-> MeaningSource[meaning.source],
     definition     |-> meaning.definition,
     usage_examples |-> meaning.usage_examples,
     note |-> "This annotation is descriptive only and does not modify the entity record."]

\* MeaningEntry.to_dict()
MeaningEntry_to_dict(m) == [m EXCEPT !.source = MeaningSource[m.source]]

MeaningOverlay_interpret_pattern(pattern_description, meanings) ==
    [pattern         |-> pattern_description,
     interpretations |-> [k \in 1..Len(meanings) |-> MeaningEntry_to_dict(meanings[k])],
     note |-> "This is a descriptive interpretation. It does not predict, prescribe, or influence outcomes."]

DefLatin == <<"F","r","o","m"," ","L","a","t","i","n">>

Meaning(term, source, definition) ==
    [term |-> term, source |-> source, definition |-> definition,
     usage_examples |-> <<>>, context |-> EmptyDict, constraints |-> <<>>,
     related_terms |-> <<>>]

\* MeaningEntry arguments the whole-system specification draws from
SystemMeanings ==
    { Meaning("trinity", "ETYMOLOGY", DefLatin),
      Meaning("trinity", "ETYMOLOGY", FactWill) }

SystemMeaningError == [m \in SystemMeanings |-> MeaningEntry_post_init(m)]

ValidSystemMeanings == {m \in SystemMeanings : SystemMeaningError[m].type = ""}

\* overlay.add_meaning(MeaningEntry(**m))
AddMeaningOf(m, err) ==
    /\ IF err.type # ""
       THEN /\ last' = Call("MeaningEntry", m, err, 0)
            /\ UNCHANGED layers
       ELSE LET r == MeaningOverlay_add_meaning(layers, m) IN
            /\ layers' = r.layers
            /\ last' = Call("add_meaning", m, r.err, 0)
    /\ UNCHANGED <<heap, cells, ledger, appended, entity, held, snapshots, watch>>

AddMeaning == \E m \in SystemMeanings : AddMeaningOf(m, SystemMeaningError[m])

GetMeaningsForTerm ==
    /\ last' \in Returns({Call("get_meanings_for_term", "trinity", NoError,
                    MeaningOverlay_get_meanings_for_term(layers, "trinity"))})
    /\ QueryFrame

AnnotateIncident ==
    /\ last' \in Returns(
           { Call("annotate_incident", i, NoError,
                    MeaningOverlay_annotate_incident(heap[i].incident_id, m.term, m)) :
             i \in 1..Len(heap), m \in ValidSystemMeanings })
    /\ QueryFrame

AnnotateEntity ==
    /\ entity.live
    /\ last' \in Returns(
           { Call("annotate_entity", entity.entity_id, NoError,
                    MeaningOverlay_annotate_entity(entity.entity_id, m.term, m)) :
             m \in ValidSystemMeanings })
    /\ QueryFrame

InterpretPattern ==
    /\ last' \in Returns(
           { Call("interpret_pattern", 0, NoError,
                    MeaningOverlay_interpret_pattern("pattern", <<m>>)) :
             m \in ValidSystemMeanings })
    /\ QueryFrame

----------------------------------------------------------------------------
(* The whole system: an empty IncidentLog, a SnapshotGenerator over it and *)
(* a MeaningOverlay, with callers making any calls in any order            *)

InitSystem ==
    /\ heap = <<>>
    /\ cells = <<>>
    /\ ledger = <<>>
    /\ appended = <<>>
    /\ entity = NoEntity
    /\ held = NoList
    /\ snapshots = <<>>
    /\ layers = MeaningOverlay_init
    /\ last = Call("init", 0, NoError, 0)

Init == InitSystem /\ watch = FALSE

Next ==
    \/ ConstructIncident
    \/ AppendIncident
    \/ GetAll
    \/ GetCount
    \/ GetByEntity
    \/ GetBySystem
    \/ GetByDateRange
    \/ IncidentToDict
    \/ IncidentFromDict
    \/ DeriveEntity
    \/ AddIncident
    \/ GetIncidentCount
    \/ GetFirstIncident
    \/ GetLastIncident
    \/ GetSystems
    \/ GetIncidentTypes
    \/ GetCoParticipants
    \/ EntityToDict
    \/ EntityToFullDict
    \/ CreateIdentitySnapshot
    \/ CreateTimelineSnapshot
    \/ CreateSystemSnapshot
    \/ CreateRelationshipSnapshot
    \/ CreateTemporalSnapshot
    \/ DeleteSnapshot
    \/ RegenerateAllSnapshots
    \/ AddMeaning
    \/ GetMeaningsForTerm
    \/ AnnotateIncident
    \/ AnnotateEntity
    \/ InterpretPattern

Spec == Init /\ [][Next]_vars

----------------------------------------------------------------------------
(* The snapshot generator with a caller that caches identity snapshots *)

\* Two incidents have been constructed and some of them appended
InitSnapshot ==
    /\ \E a1 \in SystemInputs, a2 \in SystemInputs :
          /\ a1 # a2
          /\ SystemInputError[a1] = NoError
          /\ SystemInputError[a2] = NoError
          /\ heap = <<NewIncident(a1, 0), NewIncident(a2, 4)>>
          /\ cells = <<a1.participants, a1.facts, a1.context, a1.metadata,
                       a2.participants, a2.facts, a2.context, a2.metadata>>
    /\ ledger \in ListsUpTo({1, 2}, MaxLog)
    /\ appended = ledger
    /\ entity = NoEntity
    /\ held = NoList
    /\ snapshots = <<>>
    /\ layers = MeaningOverlay_init
    /\ last = Call("init", 0, NoError, 0)
    /\ watch = FALSE

NextSnapshot ==
    \/ DeriveEntity
    \/ CreateIdentitySnapshot
    \/ CreateTimelineSnapshot
    \/ CreateSystemSnapshot
    \/ CreateRelationshipSnapshot
    \/ CreateTemporalSnapshot
    \/ CacheSnapshot
    \/ DeleteSnapshot
    \/ RegenerateAllSnapshots

SpecSnapshot == InitSnapshot /\ [][NextSnapshot]_vars

-----------------------------------------------------------------------------
(* An IncidentLog and a caller that keeps and edits what get_all() returns *)

InitCopy == InitSystem /\ watch = TRUE

NextCopy ==
    \/ ConstructIncident
    \/ AppendIncident
    \/ GetAll
    \/ GetCount
    \/ MutateReturnedList

SpecCopy == InitCopy /\ [][NextCopy]_vars

-----------------------------------------------------------------------------
(* Incident construction and the dict round trip over a range of arguments *)

\* Valid arguments, with every optional argument given
FullArgs ==
    [incident_id |-> "i1", date |-> Date0101, system |-> "A",
     incident_type |-> "OBSERVATION", participants |-> <<"a", "b", "b">>,
     facts |-> <<FactMet>>, context |-> RoomDict, summary |-> "s",
     outcome |-> "o", metadata |-> RoomDict]

RequiredFields == {"incident_id", "date", "system", "participants", "facts"}

FactLists ==
    {<<FactWill>>, <<FactMet, FactShould>>, <<FactGoodwill>>,
     <<FactPredicted>>, <<FactLeft>>}

\* Arguments Incident(...) is called with: valid ones, ones with a required
\* argument empty, and ones with other facts
IncidentInputs ==
    {FullArgs, NoInput,
     Args("i2", Date0201, "B", "OTHER", <<"a">>, << <<>> >>)}
    \cup {[FullArgs EXCEPT ![k] = IF k \in {"incident_id", "system"} THEN "" ELSE <<>>] :
            k \in RequiredFields}
    \cup {[FullArgs EXCEPT !.facts = f] : f \in FactLists}
    \cup {[FullArgs EXCEPT !.incident_id = "", !.facts = <<FactWill>>]}

IncidentInputError == [a \in IncidentInputs |-> Incident_post_init(a)]

\* One incident has been constructed and appended to the ledger
InitIncident ==
    /\ \E a \in {b \in IncidentInputs : IncidentInputError[b] = NoError} :
          /\ heap = <<NewIncident(a, 0)>>
          /\ cells = <<a.participants, a.facts, a.context, a.metadata>>
    /\ ledger = IncidentLog_append(<<>>, 1)
    /\ appended = <<1>>
    /\ entity = NoEntity
    /\ held = NoList
    /\ snapshots = <<>>
    /\ layers = MeaningOverlay_init
    /\ last = Call("append", 1, NoError, 0)
    /\ watch = TRUE

\* Incident(**a)
ConstructInput == \E a \in IncidentInputs : Construct(a, IncidentInputError[a])

\* d without key k
Drop(d, k) == [x \in DOMAIN d \ {k} |-> d[x]]

EditedKeys == {"incident_id", "incident_type", "facts", "context", "metadata", "summary"}

\* Incident.from_dict on a to_dict() result the caller has removed a key
\* from, or has given an incident_type no member has
FromEditedDict ==
    \E i \in 1..Len(heap) :
        \/ \E k \in EditedKeys : FromDict(i, Drop(Incident_to_dict(i), k))
        \/ FromDict(i, [Incident_to_dict(i) EXCEPT !.incident_type = "bogus"])

NextIncident ==
    \/ ConstructInput
    \/ IncidentToDict
    \/ IncidentFromDict
    \/ FromEditedDict

SpecIncident == InitIncident /\ [][NextIncident]_vars

-----------------------------------------------------------------------------
(* An EntityIdentity constructed over incidents in any order *)

EntityDates == {Date0101, Date0201, Date0301}

\* Three incidents that involve entity "a", constructed one after another
InitEntity ==
    /\ \E d1 \in EntityDates, d2 \in EntityDates, d3 \in EntityDates :
          LET a1 == Args("i1", d1, "A", "OBSERVATION", <<"a">>, <<FactMet>>)
              a2 == Args("i2", d2, "B", "INTERACTION", <<"a", "b">>, <<FactLeft>>)
              a3 == Args("i3", d3, "A", "OTHER", <<"a">>, <<FactMet>>)
          IN /\ heap = <<NewIncident(a1, 0), NewIncident(a2, 4), NewIncident(a3, 8)>>
             /\ cells = <<a1.participants, a1.facts, a1.context, a1.metadata,
                          a2.participants, a2.facts, a2.context, a2.metadata,
                          a3.participants, a3.facts, a3.context, a3.metadata>>
    /\ ledger = <<>>
    /\ appended = <<>>
    /\ entity = NoEntity
    /\ held = NoList
    /\ snapshots = <<>>
    /\ layers = MeaningOverlay_init
    /\ last = Call("init", 0, NoError, 0)
   
    /\ watch = TRUE

\* EntityIdentity(entity_id="a", incidents=[...])
ConstructEntity ==
    \E l \in ListsUpTo(1..Len(heap), MaxEntityLen) : MakeEntity("a", l)

NextEntity ==
    \/ ConstructEntity
    \/ AddIncident
    \/ GetIncidentCount
    \/ GetFirstIncident
    \/ GetLastIncident

SpecEntity == InitEntity /\ [][NextEntity]_vars

----------------------------------------------------------------------------
(* Properties *)

IsPrefix(s, t) == Len(s) <= Len(t) /\ SubSeq(t, 1, Len(s)) = s

Participants(i) == Range(cells[heap[i].participants])

\* C1: starting from an empty log, after N append calls get_all() returns
\* the N appended incidents in call order and get_count() returns N.
C1_AppendOrder ==
    /\ ListOf(IncidentLog_get_all(ledger), ledger) = appended
    /\ IncidentLog_get_count(ledger) = Len(appended)

C1_Witness ==
    /\ Len(appended) = 2
    /\ appended[1] # appended[2]
    /\ ListOf(IncidentLog_get_all(ledger), ledger) = appended

\* C2: in every step of every interleaving of the system's operations the
\* old ledger is a prefix of the new one, and a step that changes the ledger
\* is an append call adding its argument at the tail.
C2_GrowsAtTail ==
    [][/\ IsPrefix(ledger, ledger')
       /\ ledger' # ledger =>
             /\ last'.op = "append"
             /\ ledger' = Append(ledger, last'.arg)]_vars

C2_Witness ==
    /\ last.op = "append"
    /\ Len(ledger) = 2
    /\ ledger[1] # ledger[2]
    /\ heap[ledger[1]].incident_id = heap[ledger[2]].incident_id

\* C4 (as claimed): add_incident with an incident whose participants
\* include the entity's entity_id succeeds and the incident is the last of
\* the entity's incident list.
C4_AddIncidentAccepts ==
    (/\ last.op = "add_incident"
     /\ entity.entity_id \in Participants(last.arg))
    => /\ last.err = NoError
       /\ entity.incidents # <<>>
       /\ entity.incidents[Len(entity.incidents)] = last.arg

\* C5: add_incident with an incident whose participants do not include the
\* entity's entity_id raises an error and leaves the entity's incident list
\* as it was.
C5_AddIncidentRejects ==
    [][(/\ last'.op = "add_incident"
        /\ last' # last
        /\ entity.entity_id \notin Participants(last'.arg))
       => /\ last'.err.type # ""
          /\ entity'.incidents = entity.incidents]_vars

C5_Witness ==
    /\ last.op = "add_incident"
    /\ entity.entity_id \notin Participants(last.arg)
    /\ last.err.type # ""

\* C7: no operation of the system changes a field of an Incident that has
\* been constructed.
C7_IncidentsImmutable ==
    [][\/ heap' = heap /\ cells' = cells
       \/ \A i \in 1..Len(heap) :
             /\ i <= Len(heap')
             /\ FieldsOf(heap', cells', i) = FieldsOf(heap, cells, i)]_vars

C7_Witness ==
    /\ last.op = "from_dict"
    /\ last.err = NoError
    /\ heap[last.val].participants = heap[last.arg.of].participants
    /\ Len(cells[heap[last.val].participants]) = 3


\* C3: a list returned by get_all() is a list of its own: a caller's
\* list.append, del list[0] or list[0] = x on it leaves the ledger, and so
\* what a later get_all() returns, as it was, and an append to the ledger
\* leaves a list returned earlier as it was.
C3_GetAllIndependent ==
    [][/\ last'.op \in CallerOps =>
            /\ ledger' = ledger
            /\ ListOf(IncidentLog_get_all(ledger'), ledger')
                  = ListOf(IncidentLog_get_all(ledger), ledger)
       /\ (last'.op = "append" /\ held.ref # "none") =>
            ListOf(held', ledger') = ListOf(held, ledger)]_vars

C3_Witness ==
    /\ last.op \in CallerOps
    /\ held.ref # "none"
    /\ Len(ledger) = 2
    /\ HeldItems # ledger
    /\ Len(HeldItems) = 2

\* The required arguments of Incident(...) that are empty
EmptyRequired(a) ==
    {k \in {"incident_id", "system"} : a[k] = ""}
    \cup {k \in {"date", "participants", "facts"} : a[k] = <<>>}

\* Some fact holds, in any letter case, one of the forbidden phrases
HasForbiddenLanguage(facts) ==
    \E f \in 1..Len(facts), p \in 1..Len(forbidden_phrases) :
        Contains(lower(facts[f]), forbidden_phrases[p])

\* C6: Incident(...) raises a ValueError with a message exactly when a
\* required field (incident_id, date, system, participants, facts) is empty
\* or a fact contains a forbidden phrase; then no object is made and the
\* ledger is as before.  Otherwise it returns a new incident with the
\* arguments as its fields.
C6_ConstructionValidates ==
    [][last'.op = "Incident" =>
        LET a == last'.arg
            fails == EmptyRequired(a) # {} \/ HasForbiddenLanguage(a.facts)
        IN /\ (last'.err.type # "") <=> fails
           /\ fails =>
                /\ last'.err.type = "ValueError"
                /\ last'.err.msg # ""
                /\ EmptyRequired(a) = {} =>
                      \E f \in 1..Len(a.facts) :
                          /\ last'.err.phrase # <<>>
                          /\ Contains(lower(a.facts[f]), last'.err.phrase)
                /\ heap' = heap
                /\ cells' = cells
                /\ ledger' = ledger
                /\ IncidentLog_get_count(ledger') = IncidentLog_get_count(ledger)
           /\ ~fails =>
                /\ Len(heap') = Len(heap) + 1
                /\ last'.val = Len(heap')
                /\ FieldsOf(heap', cells', last'.val) = a]_vars

C6_Witness ==
    /\ last.op = "Incident"
    /\ EmptyRequired(last.arg) = {}
    /\ last.arg.facts = <<FactMet, FactShould>>
    /\ last.err.type = "ValueError"
    /\ last.err.phrase = <<"s","h","o","u","l","d">>
    /\ Len(ledger) = 1
    /\ Len(heap) = 1

\* C8: on a non-empty list get_first_incident() returns a held incident no
\* held incident's date is less than, get_last_incident() one no held
\* incident's date is greater than (dates compared as strings), and the
\* date returned is the same for every order of the list; on an empty list
\* both return None.
Reorderings(l) ==
    {[k \in 1..Len(l) |-> l[p[k]]] : p \in Orders(1..Len(l))}

C8_FirstLastByDate ==
    /\ last.op = "get_first_incident" =>
          IF entity.incidents = <<>> THEN last.val = NoneRef
          ELSE /\ last.val \in Range(entity.incidents)
               /\ \A j \in Range(entity.incidents) :
                     ~StrLess(heap[j].date, heap[last.val].date)
               /\ \A l \in Reorderings(entity.incidents) :
                     heap[EntityIdentity_get_first_incident(
                            [entity EXCEPT !.incidents = l])].date
                        = heap[last.val].date
    /\ last.op = "get_last_incident" =>
          IF entity.incidents = <<>> THEN last.val = NoneRef
          ELSE /\ last.val \in Range(entity.incidents)
               /\ \A j \in Range(entity.incidents) :
                     ~StrLess(heap[last.val].date, heap[j].date)
               /\ \A l \in Reorderings(entity.incidents) :
                     heap[EntityIdentity_get_last_incident(
                            [entity EXCEPT !.incidents = l])].date
                        = heap[last.val].date

C8_Witness ==
    /\ last.op = "get_last_incident"
    /\ Len(entity.incidents) = 3
    /\ heap[entity.incidents[1]].date = Date0101
    /\ heap[entity.incidents[2]].date = Date0301
    /\ heap[entity.incidents[3]].date = Date0201
    /\ last.val = entity.incidents[2]

\* C9: no step of a SnapshotGenerator operation (the five create_*
\* operations, a caller caching an identity snapshot, delete_snapshot,
\* regenerate_all_snapshots) changes the ledger, its count, the entity's
\* incident list, or an incident either of them holds: every step leaves
\* these as they were or is not a step of such an operation.
SnapshotOperation ==
    \/ CreateIdentitySnapshot
    \/ CreateTimelineSnapshot
    \/ CreateSystemSnapshot
    \/ CreateRelationshipSnapshot
    \/ CreateTemporalSnapshot
    \/ CacheSnapshot
    \/ DeleteSnapshot
    \/ RegenerateAllSnapshots

C9_SnapshotsReadOnly ==
    [][\/ /\ ledger' = ledger
          /\ IncidentLog_get_count(ledger') = IncidentLog_get_count(ledger)
          /\ entity' = entity
          /\ heap' = heap
          /\ cells' = cells
       \/ ~SnapshotOperation]_vars

\* an identity snapshot of "a" was cached and then deleted, over a ledger of
\* two incidents the entity holds out of date order
C9_Witness ==
    /\ last.op = "delete_snapshot"
    /\ last.arg = "a"
    /\ DOMAIN snapshots = {"b"}
    /\ snapshots["b"].incident_count = 1
    /\ IncidentLog_get_count(ledger) = 2
    /\ entity.entity_id = "a"
    /\ Len(entity.incidents) = 2
    /\ StrLess(heap[entity.incidents[2]].date, heap[entity.incidents[1]].date)

\* C10: from_dict applied to the to_dict() of a constructed incident returns,
\* and the incident it returns has the same ten field values.
C10_DictRoundTrip ==
    (/\ last.op = "from_dict"
     /\ last.arg.dict = Incident_to_dict(last.arg.of))
    => /\ last.err = NoError
       /\ last.val \in 1..Len(heap)
       /\ DOMAIN Fields(last.val) = IncidentFields
       /\ Fields(last.val) = Fields(last.arg.of)

C10_Witness ==
    /\ last.op = "from_dict"
    /\ last.arg.dict = Incident_to_dict(last.arg.of)
    /\ last.err = NoError
    /\ last.val # last.arg.of
    /\ Fields(last.val).incident_type = "OBSERVATION"
    /\ Fields(last.val).context = RoomDict
    /\ Len(Fields(last.val).participants) = 3

-----------------------------------------------------------------------------
(* The queries and the snapshot views over a ledger of incidents whose     *)
(* dates are in any order                                                  *)

\* Three incidents have been constructed: two of system "A" that involve
\* "a", one of system "B" that involves "a" and "b"
InitViews ==
    /\ \E d1 \in {Date0201, Date0301}, d3 \in {Date0101, Date0201} :
          LET a1 == Args("i1", d1, "A", "OBSERVATION", <<"a">>, <<FactMet>>)
              a2 == Args("i2", Date0201, "B", "INTERACTION", <<"a", "b">>, <<FactLeft>>)
              a3 == Args("i3", d3, "A", "OTHER", <<"a">>, <<FactMet>>)
          IN /\ heap = <<NewIncident(a1, 0), NewIncident(a2, 4), NewIncident(a3, 8)>>
             /\ cells = <<a1.participants, a1.facts, a1.context, a1.metadata,
                          a2.participants, a2.facts, a2.context, a2.metadata,
                          a3.participants, a3.facts, a3.context, a3.metadata>>
    /\ ledger = <<>>
    /\ appended = <<>>
    /\ entity = NoEntity
    /\ held = NoList
    /\ snapshots = <<>>
    /\ layers = MeaningOverlay_init
    /\ last = Call("init", 0, NoError, 0)
    /\ watch = TRUE

NextQueries ==
    \/ AppendIncident
    \/ GetCount
    \/ GetByEntity
    \/ GetBySystem
    \/ GetByDateRange

SpecQueries == InitViews /\ [][NextQueries]_vars

NextViews ==
    \/ AppendIncident
    \/ DeriveEntity
    \/ CreateIdentitySnapshot
    \/ CreateTimelineSnapshot
    \/ CreateSystemSnapshot
    \/ CreateRelationshipSnapshot
    \/ CreateTemporalSnapshot

SpecViews == InitViews /\ [][NextViews]_vars

\* The elements of l at the positions idx, in the order of l
Selection(l, idx) ==
    [k \in 1..Cardinality(idx) |->
        l[CHOOSE j \in idx : Cardinality({i \in idx : i < j}) = k - 1]]

\* C11: get_by_entity, get_by_system and get_by_date_range return the
\* ledger's incidents that match (the entity is a participant; the system
\* is equal; the date is neither less than start nor greater than end, as
\* strings), all of them and no other, in ledger order, and the ledger is
\* as it was.
C11_QueriesSelect ==
    [][/\ last'.op = "get_by_entity" =>
            /\ last'.val = Selection(ledger,
                  {j \in 1..Len(ledger) : last'.arg \in Participants(ledger[j])})
            /\ ledger' = ledger
       /\ last'.op = "get_by_system" =>
            /\ last'.val = Selection(ledger,
                  {j \in 1..Len(ledger) : heap[ledger[j]].system = last'.arg})
            /\ ledger' = ledger
       /\ last'.op = "get_by_date_range" =>
            /\ last'.val = Selection(ledger,
                  {j \in 1..Len(ledger) :
                      /\ ~StrLess(heap[ledger[j]].date, last'.arg[1])
                      /\ ~StrLess(last'.arg[2], heap[ledger[j]].date)})
            /\ ledger' = ledger]_vars

\* both bounds of the range are dates of ledger incidents, which the ledger
\* holds latest first
C11_Witness ==
    /\ last.op = "get_by_date_range"
    /\ last.arg = <<Date0101, Date0201>>
    /\ Len(ledger) = 2
    /\ heap[ledger[1]].date = Date0201
    /\ heap[ledger[2]].date = Date0101
    /\ last.val = ledger

\* The positions of the ledger's incidents of a system, and those of them
\* that involve an entity
SystemPositions(system) == {j \in 1..Len(ledger) : heap[ledger[j]].system = system}
EntityPositions(system, e) ==
    {j \in SystemPositions(system) : e \in Participants(ledger[j])}

Least(S) == CHOOSE x \in S : \A y \in S : x <= y
Greatest(S) == CHOOSE x \in S : \A y \in S : y <= x

\* C12: create_system_snapshot(system) has an entry for exactly the
\* entities that take part in a ledger incident of the system; an entity's
\* first_seen is the date of the first and its last_seen the date of the
\* last such incident in ledger order; incident_count is the number of
\* ledger incidents of the system.
C12_SystemSnapshotLedgerOrder ==
    last.op = "create_system_snapshot" =>
        /\ last.val.system = last.arg
        /\ last.val.incident_count = Cardinality(SystemPositions(last.arg))
        /\ DOMAIN last.val.entities =
              UNION {Participants(ledger[j]) : j \in SystemPositions(last.arg)}
        /\ \A e \in DOMAIN last.val.entities :
              /\ last.val.entities[e].first_seen =
                    heap[ledger[Least(EntityPositions(last.arg, e))]].date
              /\ last.val.entities[e].last_seen =
                    heap[ledger[Greatest(EntityPositions(last.arg, e))]].date

\* the entity's first incident of the system in ledger order is later in
\* time than its last
C12_Witness ==
    /\ last.op = "create_system_snapshot"
    /\ last.arg = "A"
    /\ last.val.incident_count = 2
    /\ last.val.entities["a"].first_seen = Date0301
    /\ last.val.entities["a"].last_seen = Date0101
    /\ "b" \notin DOMAIN last.val.entities

\* The ways to list the positions of l in ascending date order with
\* positions of equal date in ascending order
TimelineOrders(l) ==
    {p \in Orders(1..Len(l)) :
        \A j \in 1..Len(l), k \in 1..Len(l) :
            j < k =>
               /\ ~StrLess(heap[l[p[k]]].date, heap[l[p[j]]].date)
               /\ heap[l[p[j]]].date = heap[l[p[k]]].date => p[j] < p[k]}

\* C13: create_timeline_snapshot(entity) lists the to_dict() of each of the
\* entity's incidents once per occurrence, in ascending date order, those
\* of equal date in the order the entity's list has them.
C13_TimelineStableSort ==
    last.op = "create_timeline_snapshot" =>
        /\ last.val.entity_id = entity.entity_id
        /\ Len(last.val.incidents_chronological) = Len(entity.incidents)
        /\ \E p \in TimelineOrders(entity.incidents) :
              \A k \in 1..Len(entity.incidents) :
                  last.val.incidents_chronological[k]
                     = Incident_to_dict(entity.incidents[p[k]])

\* two incidents of equal date, held in the order 3, 1
C13_Witness ==
    /\ last.op = "create_timeline_snapshot"
    /\ Len(entity.incidents) = 2
    /\ entity.incidents[1] # entity.incidents[2]
    /\ heap[entity.incidents[1]].date = heap[entity.incidents[2]].date
    /\ last.val.incidents_chronological[1] = Incident_to_dict(entity.incidents[1])
    /\ last.val.incidents_chronological[1].incident_id = "i3"

CreateOps ==
    {"create_identity_snapshot", "create_timeline_snapshot",
     "create_system_snapshot", "create_relationship_snapshot",
     "create_temporal_snapshot"}

\* The fields of the snapshots that are lists made from sets
SetFields ==
    {"systems", "incident_types", "co_participants", "systems_involved",
     "entities_involved"}

\* A snapshot without its snapshot_date, its lists made from sets as sets
WithoutDate(v) ==
    [k \in DOMAIN v \ {"snapshot_date"} |->
        IF k \in SetFields THEN Range(v[k]) ELSE v[k]]

\* C14: a create_* call that follows a call of the same operation with the
\* same argument, the ledger and the entity as they were, returns what that
\* call returned in every field but snapshot_date, the lists made from sets
\* taken as sets.
C14_SnapshotsRegenerate ==
    [][(/\ last.op \in CreateOps
        /\ last'.op = last.op
        /\ last'.arg = last.arg
        /\ ledger' = ledger
        /\ entity' = entity)
       => WithoutDate(last'.val) = WithoutDate(last.val)]_vars

\* an identity snapshot with the later timestamp and its systems in the
\* other order than the ledger has them
C14_Witness ==
    /\ last.op = "create_identity_snapshot"
    /\ last.val.snapshot_date = "t2"
    /\ Len(entity.incidents) = 2
    /\ Len(last.val.systems) = 2
    /\ last.val.systems[1] = heap[entity.incidents[2]].system
    /\ last.val.systems[2] = heap[entity.incidents[1]].system

-----------------------------------------------------------------------------
(* SafetyValidator *)

\* \w and \s on the characters of the alphabet
IsWordChar(c) == c \in Range(UpperCase) \cup Range(LowerCase) \cup Range(Digits) \cup {"_"}
IsSpace(c) == c = " "

\* The patterns of the validators: \bhead, or \bhead\s+(tail|tail|...)
Word(head) == [head |-> head, gap |-> FALSE, tails |-> <<>>]
Then(head, tails) == [head |-> head, gap |-> TRUE, tails |-> tails]

\* SafetyValidator.FORBIDDEN_PATTERNS, in the order of the list
FORBIDDEN_PATTERNS ==
    <<
      Then(<<"w","i","l","l">>, <<<<"d","o">>, <<"b","e">>, <<"h","a","p","p","e","n">>, <<"o","c","c","u","r">>>>),
      Then(<<"s","h","o","u","l","d">>, <<<<"d","o">>, <<"b","e">>>>),
      Then(<<"m","u","s","t">>, <<<<"d","o">>, <<"b","e">>>>),
      Word(<<"p","r","e","d","i","c","t">>),
      Word(<<"o","p","t","i","m","i","z","e">>),
      Word(<<"r","e","c","o","m","m","e","n","d">>),
      Then(<<"s","h","o","u","l","d">>, <<<<>>>>),
      Then(<<"w","i","l","l">>, <<<<>>>>),
      Word(<<"d","e","s","t","i","n","y">>),
      Word(<<"f","a","t","e">>),
      Then(<<"m","e","a","n","t">>, <<<<"t","o">>>>),
      Then(<<"s","u","p","p","o","s","e","d">>, <<<<"t","o">>>>),
      Then(<<"w","i","l","l">>, <<<<"h","a","p","p","e","n">>>>),
      Then(<<"w","i","l","l">>, <<<<"o","c","c","u","r">>>>),
      Then(<<"w","i","l","l">>, <<<<"b","e">>>>),
      Then(<<"w","i","l","l">>, <<<<"d","o">>>>),
      Then(<<"s","h","o","u","l","d">>, <<<<"h","a","p","p","e","n">>>>),
      Then(<<"s","h","o","u","l","d">>, <<<<"o","c","c","u","r">>>>),
      Then(<<"s","h","o","u","l","d">>, <<<<"b","e">>>>),
      Then(<<"s","h","o","u","l","d">>, <<<<"d","o">>>>),
      Then(<<"m","u","s","t">>, <<<<"h","a","p","p","e","n">>>>),
      Then(<<"m","u","s","t">>, <<<<"o","c","c","u","r">>>>),
      Then(<<"m","u","s","t">>, <<<<"b","e">>>>),
      Then(<<"m","u","s","t">>, <<<<"d","o">>>>) >>

\* text has string s at position p
HasAt(text, p, s) ==
    /\ p + Len(s) - 1 <= Len(text)
    /\ SubSeq(text, p, p + Len(s) - 1) = s

\* The pattern matches text at position p: a word boundary, the head, and
\* for a pattern with \s+ one or more spaces and then one of the tails
MatchAt(text, p, pat) ==
    /\ p = 1 \/ ~IsWordChar(text[p - 1])
    /\ HasAt(text, p, pat.head)
    /\ pat.gap =>
          \E q \in (p + Len(pat.head) + 1)..(Len(text) + 1) :
              /\ \A k \in (p + Len(pat.head))..(q - 1) : IsSpace(text[k])
              /\ \E t \in Range(pat.tails) : HasAt(text, q, t)

\* re.search(pattern, text)
re_search(pat, text) == \E p \in 1..Len(text) : MatchAt(text, p, pat)

\* (True, ""), and (False, message) where the message names a pattern
Valid == [valid |-> TRUE, msg |-> "", names |-> 0]
Invalid(msg, names) == [valid |-> FALSE, msg |-> msg, names |-> names]

\* The first pattern of the list, as an index, that the text matches; 0 when
\* it matches none
FirstPattern(text, patterns) ==
    IF \E n \in 1..Len(patterns) : re_search(patterns[n], text)
    THEN CHOOSE n \in 1..Len(patterns) :
            /\ re_search(patterns[n], text)
            /\ \A m \in 1..(n - 1) : ~re_search(patterns[m], text)
    ELSE 0

SafetyValidator_validate_fact(fact) ==
    LET n == FirstPattern(lower(fact), FORBIDDEN_PATTERNS) IN
    IF n > 0 THEN Invalid("Fact contains forbidden pattern", n) ELSE Valid

SafetyValidator_validate_definition(definition) ==
    LET n == FirstPattern(lower(definition), FORBIDDEN_PATTERNS) IN
    IF n > 0 THEN Invalid("Definition contains forbidden pattern", n) ELSE Valid

TextForecast == <<"F","o","r","e","c","a","s","t"," ","o","f"," ","r","a","i","n">>
TextMustGo == <<"Y","o","u"," ","m","u","s","t"," ","g","o">>
TextMustBe == <<"I","t"," ","m","u","s","t"," ","b","e"," ","s","o">>
TextWillAlone == <<"w","i","l","l">>
TextUnpredictable == <<"u","n","p","r","e","d","i","c","t","a","b","l","e">>
TextSupposed == <<"S","u","p","p","o","s","e","d"," "," ","t","o">>
TextDestiny == <<"D","e","s","t","i","n","y">>
TextRecommend == <<"W","e"," ","r","e","c","o","m","m","e","n","d">>
TextOptimize == <<"o","p","t","i","m","i","z","e"," ","x">>
TextFate == <<"f","a","t","e">>
TextMeant == <<"m","e","a","n","t"," ","t","o">>

\* Texts the validators are called with
ValidatorTexts ==
    {<<>>, FactMet, FactLeft, FactWill, FactShould, FactGoodwill, FactPredicted,
     DefLatin, TextForecast, TextMustGo, TextMustBe, TextWillAlone,
     TextUnpredictable, TextSupposed, TextDestiny, TextRecommend, TextOptimize,
     TextFate, TextMeant}

\* The calls of a validator on its inputs, each with the result it returns
ValidateFactCalls ==
    {Call("validate_fact", t, NoError, SafetyValidator_validate_fact(t)) :
        t \in ValidatorTexts}

ValidateFact ==
    /\ last' \in ValidateFactCalls
    /\ QueryFrame

ValidateDefinitionCalls ==
    {Call("validate_definition", t, NoError, SafetyValidator_validate_definition(t)) :
        t \in ValidatorTexts}

ValidateDefinition ==
    /\ last' \in ValidateDefinitionCalls
    /\ QueryFrame

-----------------------------------------------------------------------------
(* AppendOnlyValidator *)

\* forbidden_operations of validate_append_only_operation, in list order
forbidden_operations ==
    <<<<"d","e","l","e","t","e">>,
      <<"r","e","m","o","v","e">>,
      <<"u","p","d","a","t","e">>,
      <<"m","o","d","i","f","y">>,
      <<"e","d","i","t">>,
      <<"o","v","e","r","w","r","i","t","e">>,
      <<"r","e","p","l","a","c","e">>,
      <<"t","r","u","n","c","a","t","e">>,
      <<"c","l","e","a","r">>,
      <<"r","e","s","e","t">>>>

\* The same scan on the name as given, not lower-cased
AppendOnlyValidator_validate_append_only_operation_cased(operation) ==
    LET n == FirstPhrase(operation, forbidden_operations) IN
    IF n > 0 THEN Invalid("Operation violates append-only constraint", n)
    ELSE Valid

AppendOnlyValidator_validate_append_only_operation(operation) ==
    LET n == FirstPhrase(lower(operation), forbidden_operations) IN
    IF n > 0 THEN Invalid("Operation violates append-only constraint", n)
    ELSE Valid

OpDeleteIncident == <<"d","e","l","e","t","e","_","i","n","c","i","d","e","n","t">>
OpAppendIncident == <<"a","p","p","e","n","d","_","i","n","c","i","d","e","n","t">>
OpUpdateUpper == <<"U","P","D","A","T","E">>
OpCredit == <<"c","r","e","d","i","t","_","e","n","t","r","y">>
OpGetAll == <<"g","e","t","_","a","l","l">>
OpResetAndClear == <<"R","e","s","e","t","_","a","n","d","_","c","l","e","a","r">>
OpPreset == <<"p","r","e","s","e","t">>
OpReplace == <<"R","e","p","l","a","c","e">>
OpAdd == <<"a","d","d">>

\* Operation names the validator is called with
OperationNames ==
    {OpDeleteIncident, OpAppendIncident, OpUpdateUpper, OpCredit, OpGetAll, OpResetAndClear, OpPreset, OpReplace, OpAdd}

ValidateAppendOnlyOperationCalls ==
    {Call("validate_append_only_operation", o, NoError,
          AppendOnlyValidator_validate_append_only_operation(o)) :
        o \in OperationNames}

ValidateAppendOnlyOperation ==
    /\ last' \in ValidateAppendOnlyOperationCalls
    /\ QueryFrame

\* Keys and values of the records the immutability check is called with; the
\* records hold their keys in the order of RecordKeys
RecordKeys == <<"date", "system">>
RecordValues == {NoneRef, 1, 2}
Records == UNION {[K -> RecordValues] : K \in SUBSET Range(RecordKeys)}

\* [key for key in original_data if original_data[key] != modified_data.get(key)]
changed_keys(original_data, modified_data) ==
    SelectSeq(RecordKeys,
              LAMBDA key : /\ key \in DOMAIN original_data
                           /\ original_data[key] # DictGet(modified_data, key, NoneRef))

Unmodified == [valid |-> TRUE, msg |-> "", incident_id |-> "", changed_keys |-> <<>>]

AppendOnlyValidator_validate_incident_immutability(incident_id, original_data, modified_data) ==
    IF original_data = modified_data THEN Unmodified
    ELSE [valid        |-> FALSE,
          msg          |-> "Incident was modified. Changed keys",
          incident_id  |-> incident_id,
          changed_keys |-> changed_keys(original_data, modified_data)]

ValidateIncidentImmutabilityCalls ==
    {Call("validate_incident_immutability",
          [original_data |-> o, modified_data |-> m], NoError,
          AppendOnlyValidator_validate_incident_immutability("i1", o, m)) :
        o \in Records, m \in Records}

ValidateIncidentImmutability ==
    /\ last' \in ValidateIncidentImmutabilityCalls
    /\ QueryFrame

-----------------------------------------------------------------------------
(* IntegrityValidator and SystemValidator *)

required_fields == <<"incident_id", "date", "system", "participants", "facts">>

\* The first required field the incident lacks, as an index; 0 when it has all
FirstMissingField(incident) ==
    IF \E n \in 1..Len(required_fields) : required_fields[n] \notin DOMAIN incident
    THEN CHOOSE n \in 1..Len(required_fields) :
            /\ required_fields[n] \notin DOMAIN incident
            /\ \A m \in 1..(n - 1) : required_fields[m] \in DOMAIN incident
    ELSE 0

\* The first fact that validate_fact rejects, as an index; 0 when it accepts all
FirstInvalidFact(facts) ==
    IF \E n \in 1..Len(facts) : ~SafetyValidator_validate_fact(facts[n]).valid
    THEN CHOOSE n \in 1..Len(facts) :
            /\ ~SafetyValidator_validate_fact(facts[n]).valid
            /\ \A m \in 1..(n - 1) : SafetyValidator_validate_fact(facts[m]).valid
    ELSE 0

IntegrityValidator_validate_incident_integrity(incident) ==
    LET missing == FirstMissingField(incident)
        facts   == DictGet(incident, "facts", <<>>)
        invalid == FirstInvalidFact(facts)
    IN  IF missing > 0
        THEN Invalid("Incident missing required field", missing)
        ELSE IF invalid > 0
        THEN Invalid("Incident contains invalid fact: Fact contains forbidden pattern",
                     SafetyValidator_validate_fact(facts[invalid]).names)
        ELSE Valid

IntegrityValidator_validate_entity_is_derived(entity_) ==
    LET extra_keys == DOMAIN entity_ \ {"entity_id", "incidents"} IN
    IF extra_keys # {}
    THEN Invalid("Entity has extra keys (not derived)", extra_keys)
    ELSE Valid

IntegrityValidator_validate_meaning_is_descriptive(meaning) ==
    LET r == SafetyValidator_validate_definition(DictGet(meaning, "definition", <<>>)) IN
    IF ~r.valid
    THEN Invalid("Meaning contains prescriptive language: Definition contains forbidden pattern",
                 r.names)
    ELSE Valid

IntegrityValidator_validate_snapshot_is_view(snapshot) ==
    LET metadata == DictGet(snapshot, "metadata", EmptyDict)
        note     == DictGet(metadata, "note", <<>>)
    IN  IF \/ ~Contains(lower(note), <<"v","i","e","w">>)
           \/ ~Contains(lower(note), <<"n","o","t"," ","a","u","t","h","o","r","i","t","a","t","i","v","e">>)
        THEN Invalid("Snapshot is not marked as a view", 0)
        ELSE Valid

\* The report line f"{kind} {record.get(key)}: {error}"
Violation(kind, record, key, error) ==
    [kind |-> kind, id |-> DictGet(record, key, "None"), error |-> error]

IncidentViolations(incidents) ==
    LET checked == [k \in 1..Len(incidents) |->
                       Violation("Incident", incidents[k], "incident_id", IntegrityValidator_validate_incident_integrity(incidents[k]))]
    IN  SelectSeq(checked, LAMBDA v : ~v.error.valid)

EntityViolations(entities) ==
    LET checked == [k \in 1..Len(entities) |->
                       Violation("Entity", entities[k], "entity_id", IntegrityValidator_validate_entity_is_derived(entities[k]))]
    IN  SelectSeq(checked, LAMBDA v : ~v.error.valid)

MeaningViolations(meanings) ==
    LET checked == [k \in 1..Len(meanings) |->
                       Violation("Meaning", meanings[k], "term", IntegrityValidator_validate_meaning_is_descriptive(meanings[k]))]
    IN  SelectSeq(checked, LAMBDA v : ~v.error.valid)

SnapshotViolations(snapshots_) ==
    LET checked == [k \in 1..Len(snapshots_) |->
                       Violation("Snapshot", snapshots_[k], "entity_id", IntegrityValidator_validate_snapshot_is_view(snapshots_[k]))]
    IN  SelectSeq(checked, LAMBDA v : ~v.error.valid)

\* report["violations"] when the four loops have run
SystemViolations(system_state) ==
    IncidentViolations(DictGet(system_state, "incidents", <<>>))
    \o EntityViolations(DictGet(system_state, "entities", <<>>))
    \o MeaningViolations(DictGet(system_state, "meanings", <<>>))
    \o SnapshotViolations(DictGet(system_state, "snapshots", <<>>))

\* A validation that returns at the first violation it finds
SystemValidator_validate_system_state_stopping(system_state) ==
    LET violations == SystemViolations(system_state) IN
    [valid      |-> violations = <<>>,
     violations |-> IF violations = <<>> THEN <<>> ELSE <<violations[1]>>,
     warnings   |-> <<>>]

SystemValidator_validate_system_state(system_state) ==
    LET violations == SystemViolations(system_state) IN
    [valid      |-> Len(violations) = 0,
     violations |-> violations,
     warnings   |-> <<>>]

NoteView == <<"T","h","i","s"," ","s","n","a","p","s","h","o","t"," ","i","s"," ","a"," ","V","I","E","W"," ","-"," ","n","o","t"," ","a","u","t","h","o","r","i","t","a","t","i","v","e">>
NoteViewOnly == <<"a"," ","v","i","e","w">>

IncidentGood == [incident_id |-> "i1", date |-> Date0101, system |-> "A",
                 participants |-> <<"a">>, facts |-> <<FactMet, FactGoodwill>>]
IncidentNoDate == [incident_id |-> "i2", system |-> "A",
                   participants |-> <<"a">>, facts |-> <<FactWill>>]
IncidentWill == [incident_id |-> "i3", date |-> Date0201, system |-> "B",
                 participants |-> <<"b">>, facts |-> <<FactMet, FactWill>>]
IncidentNoId == [date |-> Date0201, system |-> "B",
                 participants |-> <<"b">>, facts |-> <<FactLeft>>]
EntityGood == [entity_id |-> "a", incidents |-> <<"i1">>]
EntityNamed == [entity_id |-> "b", incidents |-> <<>>, name |-> "Bob"]
MeaningGood == [term |-> "trinity", definition |-> DefLatin]
MeaningShould == [term |-> "duty", definition |-> FactShould]
MeaningBare == [term |-> "void"]
SnapshotView == [entity_id |-> "a", metadata |-> [note |-> NoteView]]
SnapshotViewOnly == [entity_id |-> "b", metadata |-> [note |-> NoteViewOnly]]
SnapshotBare == [snapshot_date |-> "t1"]

\* System states the master validator is called with: all four collections,
\* or the incidents alone
SystemStates ==
    {[incidents |-> i, entities |-> e, meanings |-> m, snapshots |-> s] :
        i \in {<<>>, <<IncidentGood>>, <<IncidentNoDate, IncidentWill>>,
               <<IncidentWill, IncidentGood, IncidentNoId>>},
        e \in {<<>>, <<EntityGood, EntityNamed>>},
        m \in {<<MeaningGood>>, <<MeaningShould, MeaningBare>>},
        s \in {<<>>, <<SnapshotView>>, <<SnapshotBare, SnapshotViewOnly>>}}
    \cup {[incidents |-> i] : i \in {<<IncidentGood>>, <<IncidentWill>>}}

ValidateSystemStateCalls ==
    {Call("validate_system_state", s, NoError,
          SystemValidator_validate_system_state(s)) :
        s \in SystemStates}

ValidateSystemState ==
    /\ last' \in ValidateSystemStateCalls
    /\ QueryFrame

InitValidator ==
    /\ InitSystem
    /\ watch = TRUE

NextValidator ==
    \/ ValidateFact
    \/ ValidateDefinition
    \/ ValidateAppendOnlyOperation
    \/ ValidateIncidentImmutability
    \/ ValidateSystemState

SpecValidator == InitValidator /\ [][NextValidator]_vars

-----------------------------------------------------------------------------
(* Properties of the validators *)

\* `head` at the start of a word of the text, then spaces, then a further word
FollowedByWord(text, head) ==
    \E p \in 1..Len(text) :
        /\ p = 1 \/ ~IsWordChar(text[p - 1])
        /\ HasAt(text, p, head)
        /\ \E q \in (p + Len(head) + 1)..Len(text) :
              /\ \A k \in (p + Len(head))..(q - 1) : IsSpace(text[k])
              /\ IsWordChar(text[q])

\* A word of the text starts with `stem`
HasWordStarting(text, stem) ==
    \E p \in 1..Len(text) :
        /\ p = 1 \/ ~IsWordChar(text[p - 1])
        /\ HasAt(text, p, stem)

\* The text, in lower case, has a modal verb with a continuation or a word of
\* the predictive or directive vocabulary
HasForbiddenContent(text) ==
    \/ \E head \in {<<"w","i","l","l">>, <<"s","h","o","u","l","d">>, <<"m","u","s","t">>} :
          FollowedByWord(lower(text), head)
    \/ \E stem \in {<<"p","r","e","d","i","c","t">>,
                    <<"f","o","r","e","c","a","s","t">>,
                    <<"d","e","s","t","i","n","y">>,
                    <<"f","a","t","e">>,
                    <<"o","p","t","i","m","i","z","e">>,
                    <<"r","e","c","o","m","m","e","n","d">>} :
          HasWordStarting(lower(text), stem)

MatchesForbiddenPattern(text) ==
    \E n \in 1..Len(FORBIDDEN_PATTERNS) : re_search(FORBIDDEN_PATTERNS[n], lower(text))

\* C15: validate_fact and validate_definition return (False, reason) for every
\* text, in any case, that has "will", "should" or "must" followed by further
\* words, or has "predict", "forecast", "destiny", "fate", "optimize" or
\* "recommend"; they return (True, "") for a text that matches no forbidden
\* pattern.
C15_ContentRules ==
    last.op \in {"validate_fact", "validate_definition"} =>
        /\ HasForbiddenContent(last.arg) =>
              /\ ~last.val.valid
              /\ last.val.msg # ""
        /\ ~MatchesForbiddenPattern(last.arg) => last.val = Valid

\* The verbs of the list that the lower-cased operation name contains
VerbsIn(operation) ==
    {n \in 1..Len(forbidden_operations) :
        Contains(lower(operation), forbidden_operations[n])}

\* C16: validate_append_only_operation returns (False, reason naming the verb)
\* exactly when the lower-cased operation name contains one of the ten verbs
\* as a substring, and (True, "") otherwise; "delete_incident" is rejected and
\* "append_incident" is accepted.
C16_AppendOnlyOperation ==
    last.op = "validate_append_only_operation" =>
        /\ last.val.valid <=> VerbsIn(last.arg) = {}
        /\ last.val.valid => last.val = Valid
        /\ ~last.val.valid =>
              /\ last.val.msg # ""
              /\ last.val.names \in VerbsIn(last.arg)
        /\ last.arg = OpDeleteIncident => ~last.val.valid
        /\ last.arg = OpAppendIncident => last.val.valid

\* An operation name in upper case that contains a verb of the list was
\* rejected, naming the verb
C16_Witness ==
    /\ last.op = "validate_append_only_operation"
    /\ last.arg = OpUpdateUpper
    /\ ~last.val.valid
    /\ forbidden_operations[last.val.names] = lower(OpUpdateUpper)

\* The keys on which two records differ, those that only one of them has
\* included
DifferingKeys(original, candidate) ==
    {k \in DOMAIN original \cup DOMAIN candidate :
        \/ k \notin DOMAIN original
        \/ k \notin DOMAIN candidate
        \/ original[k] # candidate[k]}

\* C17: validate_incident_immutability returns (True, "") exactly when the
\* original and the candidate are structurally equal; otherwise it returns
\* (False, reason) whose changed-keys list is exactly the set of keys on which
\* the two differ, keys present in only one of them included, and is never
\* empty.
C17_ImmutabilityReportsChangedKeys ==
    last.op = "validate_incident_immutability" =>
        LET original  == last.arg.original_data
            candidate == last.arg.modified_data
        IN  /\ last.val.valid <=> original = candidate
            /\ last.val.valid => last.val.msg = ""
            /\ ~last.val.valid =>
                  /\ Range(last.val.changed_keys) = DifferingKeys(original, candidate)
                  /\ last.val.changed_keys # <<>>

\* The records of the four collections that fail their check, in the order
\* incidents, entities, meanings, snapshots and in the order of each collection
FailingRecords(system_state) ==
    SelectSeq([k \in 1..Len(DictGet(system_state, "incidents", <<>>)) |->
                  [kind |-> "Incident", record |-> system_state.incidents[k]]],
              LAMBDA f : ~IntegrityValidator_validate_incident_integrity(f.record).valid)
    \o SelectSeq([k \in 1..Len(DictGet(system_state, "entities", <<>>)) |->
                  [kind |-> "Entity", record |-> system_state.entities[k]]],
              LAMBDA f : ~IntegrityValidator_validate_entity_is_derived(f.record).valid)
    \o SelectSeq([k \in 1..Len(DictGet(system_state, "meanings", <<>>)) |->
                  [kind |-> "Meaning", record |-> system_state.meanings[k]]],
              LAMBDA f : ~IntegrityValidator_validate_meaning_is_descriptive(f.record).valid)
    \o SelectSeq([k \in 1..Len(DictGet(system_state, "snapshots", <<>>)) |->
                  [kind |-> "Snapshot", record |-> system_state.snapshots[k]]],
              LAMBDA f : ~IntegrityValidator_validate_snapshot_is_view(f.record).valid)

\* The id a violation names for a record of a kind
NamedId(f) ==
    DictGet(f.record, IF f.kind = "Incident" THEN "incident_id"
                      ELSE IF f.kind = "Meaning" THEN "term" ELSE "entity_id",
            "None")

\* C18: validate_system_state checks every record of all four collections
\* without stopping at the first failure: the violations list has one entry
\* per failing record, in collection order, and report.valid is true exactly
\* when the violations list is empty.
C18_SystemStateReportsAll ==
    last.op = "validate_system_state" =>
        LET failing == FailingRecords(last.arg)
            report  == last.val
        IN  /\ Len(report.violations) = Len(failing)
            /\ \A k \in 1..Len(failing) :
                  /\ report.violations[k].kind = failing[k].kind
                  /\ report.violations[k].id = NamedId(failing[k])
                  /\ ~report.violations[k].error.valid
            /\ report.valid <=> report.violations = <<>>

\* A state with failing records in all four collections, two of them
\* incidents and two of them snapshots, was reported with six violations
C18_Witness ==
    /\ last.op = "validate_system_state"
    /\ DOMAIN last.arg = {"incidents", "entities", "meanings", "snapshots"}
    /\ last.arg.incidents = <<IncidentNoDate, IncidentWill>>
    /\ last.arg.entities = <<EntityGood, EntityNamed>>
    /\ last.arg.meanings = <<MeaningShould, MeaningBare>>
    /\ last.arg.snapshots = <<SnapshotBare, SnapshotViewOnly>>
    /\ Len(last.val.violations) = 6
    /\ ~last.val.valid

-----------------------------------------------------------------------------
(* A MeaningOverlay alone, with callers adding entries of two terms and two *)
(* sources and looking terms up                                             *)

OverlayTerms == {"trinity", "unity"}
OverlaySources == {"ETYMOLOGY", "CULTURAL_USAGE"}

\* MeaningEntry arguments: two definitions for every term and source, and one
\* definition that __post_init__ rejects
OverlayMeanings ==
    {Meaning(t, s, d) : t \in OverlayTerms, s \in OverlaySources, d \in {DefLatin, FactMet}}
    \cup {Meaning("trinity", "ETYMOLOGY", FactWill)}

OverlayMeaningError == [m \in OverlayMeanings |-> MeaningEntry_post_init(m)]

AddOverlayMeaning == \E m \in OverlayMeanings : AddMeaningOf(m, OverlayMeaningError[m])

GetMeaningsForOverlayTerm ==
    /\ \E t \in OverlayTerms :
          last' \in Returns({Call("get_meanings_for_term", t, NoError,
                                  MeaningOverlay_get_meanings_for_term(layers, t))})
    /\ QueryFrame

InitOverlay ==
    /\ InitSystem
    /\ watch = TRUE

NextOverlay ==
    \/ AddOverlayMeaning
    \/ GetMeaningsForOverlayTerm

SpecOverlay == InitOverlay /\ [][NextOverlay]_vars

\* C19: after any sequence of add_meaning calls the overlay holds exactly one
\* layer for each of the six MeaningSource values, and every entry stored in
\* a layer has the layer's source and is stored under its own term.
C19_LayersPartitionBySource ==
    /\ DOMAIN layers = DOMAIN MeaningSource
    /\ Cardinality(DOMAIN layers) = 6
    /\ \A source \in DOMAIN layers :
          \A term \in DOMAIN layers[source] :
              /\ layers[source][term].source = source
              /\ layers[source][term].term = term

\* Entries of both sources and both terms were added, each stored in the layer
\* of its source
C19_Witness ==
    /\ last.op = "add_meaning"
    /\ DOMAIN layers["ETYMOLOGY"] = OverlayTerms
    /\ DOMAIN layers["CULTURAL_USAGE"] = OverlayTerms
    /\ layers["NARRATIVE_ROLE"] = <<>>

\* What get_meanings_for_term(term) returns for layers ls, with the entry m
\* put under the value of m's source
WithMeaning(ls, term, m) ==
    LET before == MeaningOverlay_get_meanings_for_term(ls, term)
        key    == MeaningSource[m.source]
    IN  [v \in DOMAIN before \cup {key} |-> IF v = key THEN m ELSE before[v]]

\* C20: get_meanings_for_term(t) returns a mapping whose keys are exactly the
\* names of the sources for which an entry of term t was added, each mapped to
\* the entry added last for that source and term: it is empty before any add,
\* an add of entry m puts m under m's source in the mapping of m's term and
\* leaves every other key and the mapping of every other term as they were,
\* and no other call changes a mapping; a lookup returns that mapping.
C20_LastWriteWins ==
    /\ \A t \in OverlayTerms : MeaningOverlay_get_meanings_for_term(layers, t) = <<>>
    /\ [][/\ \A t \in OverlayTerms :
               MeaningOverlay_get_meanings_for_term(layers', t) =
                   IF /\ last'.op = "add_meaning"
                      /\ last'.err = NoError
                      /\ last'.arg.term = t
                   THEN WithMeaning(layers, t, last'.arg)
                   ELSE MeaningOverlay_get_meanings_for_term(layers, t)
          /\ last'.op = "get_meanings_for_term" =>
               /\ last'.val = MeaningOverlay_get_meanings_for_term(layers, last'.arg)
               /\ DOMAIN last'.val =
                     {MeaningSource[s] :
                         s \in {x \in DOMAIN layers : last'.arg \in DOMAIN layers[x]}}
         ]_vars

\* With entries of both terms in the overlay, a lookup of one term returned
\* the entries of both sources for that term, and nothing of the other term
C20_Witness ==
    /\ last.op = "get_meanings_for_term"
    /\ last.arg = "trinity"
    /\ DOMAIN last.val = {"etymology", "cultural_usage"}
    /\ last.val["etymology"] = Meaning("trinity", "ETYMOLOGY", FactMet)
    /\ last.val["cultural_usage"] = Meaning("trinity", "CULTURAL_USAGE", DefLatin)
    /\ "unity" \in DOMAIN layers["ETYMOLOGY"]

-----------------------------------------------------------------------------
(* One text given to MeaningEntry as definition and to Incident as its only *)
(* fact, and the constructed incidents serialized and audited              *)

TextGood == <<"A"," ","g","o","o","d"," ","d","a","y">>
TextOught == <<"H","e"," ","o","u","g","h","t"," ","t","o"," ","g","o">>

LanguageTexts ==
    {FactMet, FactLeft, FactWill, FactShould, FactGoodwill, TextRecommend,
     TextGood, TextOught, TextFate, TextMeant, TextSupposed}

\* MeaningEntry(term, source, definition=text), other arguments valid
DefinitionArgs(text) == Meaning("trinity", "ETYMOLOGY", text)

\* Incident(..., facts=[text]), other arguments valid
FactArgs(text) == [FullArgs EXCEPT !.facts = <<text>>]

DefinitionError == [t \in LanguageTexts |-> MeaningEntry_post_init(DefinitionArgs(t))]
FactError == [t \in LanguageTexts |-> Incident_post_init(FactArgs(t))]

ConstructMeaningEntry ==
    /\ \E t \in LanguageTexts :
          last' = Call("MeaningEntry", DefinitionArgs(t), DefinitionError[t], 0)
    /\ QueryFrame

ConstructIncidentOfFact == \E t \in LanguageTexts : Construct(FactArgs(t), FactError[t])

\* IntegrityValidator.validate_incident_integrity(d) on the dictionary d that
\* to_dict() has just returned
ValidateIncidentIntegrity ==
    /\ last.op = "to_dict"
    /\ last' = Call("validate_incident_integrity", last.arg, NoError,
                    IntegrityValidator_validate_incident_integrity(DictValue(last.val)))
    /\ QueryFrame

InitLanguage ==
    /\ InitSystem
    /\ watch = TRUE

NextLanguage ==
    \/ ConstructMeaningEntry
    \/ ConstructIncidentOfFact
    \/ IncidentToDict
    \/ ValidateIncidentIntegrity

SpecLanguage == InitLanguage /\ [][NextLanguage]_vars

-----------------------------------------------------------------------------
(* A caller that changes the list and dict values of a dictionary that      *)
(* to_dict() returned, or that a snapshot holds                             *)

\* What the caller does with the value d[key] of the dictionary d:
\* d["participants"][0] = "z", d["facts"][0] = "This will happen",
\* d["context"]["room"] = "r2", d["metadata"].clear()
DictEdit(key, value) ==
    IF key = "participants"
    THEN (IF value = <<>> THEN value ELSE [value EXCEPT ![1] = "z"])
    ELSE IF key = "facts"
    THEN (IF value = <<>> THEN value ELSE [value EXCEPT ![1] = FactWill])
    ELSE IF key = "context"
    THEN ("room" :> "r2") @@ value
    ELSE EmptyDict

EditedValues == {"participants", "facts", "context", "metadata"}

\* The caller changes, in place, a list or dict value of the incident
\* dictionary d: the object changes, whichever holds it
EditDict(op, d) ==
    /\ \E key \in EditedValues :
          /\ cells' = [cells EXCEPT ![d[key]] = DictEdit(key, @)]
          /\ last' = Call(op, key, NoError, 0)
    /\ UNCHANGED <<heap, ledger, appended, entity, held, snapshots, layers, watch>>

\* ... of the dictionary that to_dict() has just returned
EditReturnedDict ==
    /\ last.op = "to_dict"
    /\ EditDict("dict_edit", last.val)

\* ... of the first incident dictionary of the relationship snapshot that has
\* just been created
EditSnapshotDict ==
    /\ last.op = "create_relationship_snapshot"
    /\ last.val.shared_incidents # <<>>
    /\ EditDict("snapshot_dict_edit", last.val.shared_incidents[1])

NextDictEdit ==
    \/ IncidentToDict
    \/ EditReturnedDict
    \/ CreateRelationshipSnapshot
    \/ EditSnapshotDict

SpecDictEdit == InitIncident /\ [][NextDictEdit]_vars

-----------------------------------------------------------------------------
(* Snapshots and entities serialized and given to the IntegrityValidator    *)

\* IdentitySnapshot.to_dict()
IdentitySnapshot_to_dict(snapshot) ==
    [entity_id       |-> snapshot.entity_id,
     snapshot_date   |-> snapshot.snapshot_date,
     incident_count  |-> snapshot.incident_count,
     first_seen      |-> snapshot.first_seen,
     last_seen       |-> snapshot.last_seen,
     systems         |-> snapshot.systems,
     incident_types  |-> snapshot.incident_types,
     co_participants |-> snapshot.co_participants,
     metadata        |-> snapshot.metadata]

\* TimelineSnapshot.to_dict()
TimelineSnapshot_to_dict(snapshot) ==
    [entity_id     |-> snapshot.entity_id,
     snapshot_date |-> snapshot.snapshot_date,
     incidents     |-> snapshot.incidents_chronological]

\* SystemSnapshot.to_dict()
SystemSnapshot_to_dict(snapshot) ==
    [system         |-> snapshot.system,
     snapshot_date  |-> snapshot.snapshot_date,
     entities       |-> snapshot.entities,
     incident_count |-> snapshot.incident_count]

\* The serialized form of what a create_..._snapshot call returned: the
\* to_dict() of the three snapshot classes; the relationship and the temporal
\* snapshot are dictionaries as they are
SerializedSnapshot(op, snapshot) ==
    IF op = "create_identity_snapshot" THEN IdentitySnapshot_to_dict(snapshot)
    ELSE IF op = "create_timeline_snapshot" THEN TimelineSnapshot_to_dict(snapshot)
    ELSE IF op = "create_system_snapshot" THEN SystemSnapshot_to_dict(snapshot)
    ELSE snapshot

\* validate_snapshot_is_view on the serialized form of the snapshot that has
\* just been created
ValidateSnapshotIsView ==
    /\ last.op \in {"create_identity_snapshot", "create_timeline_snapshot",
                    "create_system_snapshot", "create_relationship_snapshot",
                    "create_temporal_snapshot"}
    /\ last' = Call("validate_snapshot_is_view", last.op, NoError,
                    IntegrityValidator_validate_snapshot_is_view(
                        SerializedSnapshot(last.op, last.val)))
    /\ QueryFrame

\* validate_entity_is_derived on the to_dict() or to_full_dict() that has
\* just been returned
ValidateEntityIsDerived ==
    /\ last.op \in {"entity_to_dict", "entity_to_full_dict"}
    /\ last' = Call("validate_entity_is_derived", last.op, NoError,
                    IntegrityValidator_validate_entity_is_derived(last.val))
    /\ QueryFrame

\* Two incidents of system "A" have been constructed, one of which lists its
\* participant twice
InitAudit ==
    /\ LET a1 == Args("i1", Date0101, "A", "OBSERVATION", <<"a", "a">>, <<FactMet>>)
           a2 == Args("i2", Date0201, "A", "INTERACTION", <<"a", "b">>, <<FactLeft>>)
       IN /\ heap = <<NewIncident(a1, 0), NewIncident(a2, 4)>>
          /\ cells = <<a1.participants, a1.facts, a1.context, a1.metadata,
                       a2.participants, a2.facts, a2.context, a2.metadata>>
    /\ ledger = <<>>
    /\ appended = <<>>
    /\ entity = NoEntity
    /\ held = NoList
    /\ snapshots = <<>>
    /\ layers = MeaningOverlay_init
    /\ last = Call("init", 0, NoError, 0)
    /\ watch = TRUE

NextAudit ==
    \/ AppendIncident
    \/ DeriveEntity
    \/ CreateIdentitySnapshot
    \/ CreateTimelineSnapshot
    \/ CreateSystemSnapshot
    \/ CreateRelationshipSnapshot
    \/ CreateTemporalSnapshot
    \/ ValidateSnapshotIsView
    \/ EntityToDict
    \/ EntityToFullDict
    \/ ValidateEntityIsDerived

SpecAudit == InitAudit /\ [][NextAudit]_vars

-----------------------------------------------------------------------------
(* Properties that relate one component to another *)

\* C22: incident_id is unique: after any sequence of appends no two incidents
\* in the ledger have the same incident_id.
C22_IncidentIdsUnique ==
    \A j \in DOMAIN ledger, k \in DOMAIN ledger :
        j # k => heap[ledger[j]].incident_id # heap[ledger[k]].incident_id

\* C21: a MeaningEntry definition passes the same forbidden-language check as
\* an Incident fact: for every text, MeaningEntry with the text as definition
\* is constructed exactly when Incident with the text as its only fact (other
\* arguments valid) is constructed.
C21_SameLanguageCheck ==
    /\ last.op = "MeaningEntry" =>
          (last.err = NoError <=>
              Incident_post_init(FactArgs(last.arg.definition)) = NoError)
    /\ (last.op = "Incident" /\ Len(last.arg.facts) = 1) =>
          (last.err = NoError <=>
              MeaningEntry_post_init(DefinitionArgs(last.arg.facts[1])) = NoError)

\* C23: every incident that construction accepted passes the audit:
\* validate_incident_integrity(i.to_dict()) returns (True, "").
C23_ConstructedPassesAudit ==
    last.op = "validate_incident_integrity" => last.val = Valid

\* C24: changing the participants, facts, context or metadata inside the
\* dictionary that Incident.to_dict() returned, or inside an incident
\* dictionary embedded in a snapshot, leaves the fields of the incident stored
\* in the ledger unchanged.
C24_DictEditLeavesIncident ==
    [][last'.op \in {"dict_edit", "snapshot_dict_edit"} =>
          \A k \in DOMAIN ledger :
              FieldsOf(heap', cells', ledger[k]) = FieldsOf(heap, cells, ledger[k])]_vars

\* C25: in every system snapshot each entity's incident_count is the number
\* of the system's ledger incidents in which the entity takes part, and so is
\* never more than the snapshot's incident_count, also when an incident lists
\* a participant more than once.
C25_EntityCountPerIncident ==
    last.op = "create_system_snapshot" =>
        \A e \in DOMAIN last.val.entities :
            /\ last.val.entities[e].incident_count =
                  Cardinality(EntityPositions(last.arg, e))
            /\ last.val.entities[e].incident_count <= last.val.incident_count

\* C26: every snapshot the SnapshotGenerator produces, of every kind, passes
\* validate_snapshot_is_view when serialized.
C26_SnapshotsPassViewCheck ==
    last.op = "validate_snapshot_is_view" => last.val = Valid

\* C27: the serialized forms of an EntityIdentity, to_dict() and
\* to_full_dict(), pass validate_entity_is_derived, which accepts a mapping
\* exactly when its keys are within {entity_id, incidents}.
C27_EntityDictsPassDerivedCheck ==
    last.op = "validate_entity_is_derived" => last.val.valid
====
